---- MODULE Spec2Model ----
(***************************************************************************)
(* Music EQ Flocks: the zone controller (Orchestrator), the swarm agent    *)
(* (Boid), the vector algebra (Vector2), the audio front end (Orchestra)   *)
(* and the animation loop (animate).                                       *)
(*                                                                         *)
(* Numbers.  A JavaScript number is modelled in fixed point: the integer n *)
(* stands for n / Scale (n / (Scale * Fine) for a sum of inverse-distance   *)
(* weights).  Quotients round toward zero, except that a                   *)
(* non-zero value never rounds to zero (doubles do not underflow over the  *)
(* ranges used here).  The inputs of every specification are drawn so that *)
(* all intermediate values stay below 2^31.                                *)
(***************************************************************************)
EXTENDS Integers, Sequences, FiniteSets

VARIABLES
    boids,                  \* main.ts `boids`: the population, in order
    canvasWidth,            \* canvas.width
    canvasHeight,           \* canvas.height
    wasPlaying,             \* Orchestrator.wasPlaying
    chaosFramesRemaining,   \* Orchestrator.chaosFramesRemaining
    last,                   \* what the latest Orchestrator.update read and computed
    sinceStop,              \* update calls since the latest playing->idle edge, that call being 1
    playCalls,              \* update calls so far that were handed a FrequencyData
    call,                   \* the latest pure-function application and its result
    orchestra,              \* main.ts `orchestra`: the Orchestra object's fields
    controls,               \* the play and pause buttons' `disabled` flags
    frame                   \* what the latest animate() frame read

vars == <<boids, canvasWidth, canvasHeight, wasPlaying, chaosFramesRemaining,
          last, sinceStop, playCalls, call, orchestra, controls, frame>>

(***************************************************************************)
(* Fixed-point numbers                                                     *)
(***************************************************************************)
Scale == 200

Fine == 100

Abs(n) == IF n < 0 THEN -n ELSE n

Sign(n) == IF n < 0 THEN -1 ELSE IF n > 0 THEN 1 ELSE 0

\* n / d for d > 0, rounded toward zero, a non-zero n never giving 0.
Quot(n, d) ==
    IF n = 0 THEN 0
    ELSE IF Abs(n) < d THEN Sign(n)
    ELSE IF n > 0 THEN n \div d ELSE -((-n) \div d)

\* A power of two above the square root of n < 2^31.
SqrtGuess(n) ==
    IF n < 65536
    THEN IF n < 256 THEN IF n < 16 THEN 4 ELSE 16
         ELSE IF n < 4096 THEN 64 ELSE 256
    ELSE IF n < 16777216 THEN IF n < 1048576 THEN 1024 ELSE 4096
         ELSE IF n < 268435456 THEN 16384 ELSE 65536

\* Heron's iteration downward from a guess x above the root.
RECURSIVE SqrtIter(_, _, _)
SqrtIter(n, x, y) == IF y >= x THEN x ELSE SqrtIter(n, y, (y + n \div y) \div 2)

\* Math.sqrt on integers: the floor of the square root.
Sqrt(n) == IF n = 0 THEN 0 ELSE SqrtIter(n, SqrtGuess(n), (SqrtGuess(n) + n \div SqrtGuess(n)) \div 2)

\* Math.sqrt(dx * dx + dy * dy); beyond 160 pixels the squares are taken at a
\* quarter of the resolution.
Hypot(dx, dy) ==
    IF Abs(dx) < 32000 /\ Abs(dy) < 32000 THEN Sqrt(dx * dx + dy * dy)
    ELSE 4 * Sqrt(Quot(dx, 4) * Quot(dx, 4) + Quot(dy, 4) * Quot(dy, 4))

(***************************************************************************)
(* Vector2                                                                 *)
(***************************************************************************)
Vector2(x, y) == [x |-> x, y |-> y]

Zero == Vector2(0, 0)

add(a, v) == Vector2(a.x + v.x, a.y + v.y)

subtract(a, v) == Vector2(a.x - v.x, a.y - v.y)

\* multiply by the scalar num / den
multiply(a, num, den) == Vector2(Quot(a.x * num, den), Quot(a.y * num, den))

length(a) == Hypot(a.x, a.y)

divideBy(a, len) ==
    IF len > 0 THEN Vector2(Quot(a.x * Scale, len), Quot(a.y * Scale, len)) ELSE a

normalize(a) == divideBy(a, length(a))

(***************************************************************************)
(* Boid: fields and distanceTo                                             *)
(***************************************************************************)
Bands == {"low", "mid", "high"}

Boid(p, v, b) == [position |-> p, velocity |-> v, band |-> b]

distanceTo(a, other) ==
    Hypot(a.position.x - other.position.x, a.position.y - other.position.y)

(***************************************************************************)
(* config (config.ts): distances in pixels, weights and speeds in          *)
(* hundredths                                                              *)
(***************************************************************************)
separationDistance == 25

neighborhoodDistance == 50

separationWeight == 150

cohesionWeight == 100

alignmentWeight == 100

maxSpeed == 400

minVelocity == 50

(***************************************************************************)
(* Boid.update                                                             *)
(***************************************************************************)
\* getNeighbors: the boids closer than neighborhoodDistance, this one included
getNeighbors(bs, this) ==
    SelectSeq(bs, LAMBDA boid : distanceTo(boid, this) < neighborhoodDistance * Scale)

\* One iteration of getSeparation's loop; the steer is carried Fine times finer,
\* its use being normalized.
separationStep(this, other, acc, d) ==
    IF d > 0 /\ d < separationDistance * Scale
    THEN [steer |-> add(acc.steer,
                        multiply(normalize(subtract(this.position, other.position)),
                                 Scale * Fine, d)),
          count |-> acc.count + 1]
    ELSE acc

RECURSIVE separationLoop(_, _, _)
separationLoop(this, others, acc) ==
    IF others = <<>> THEN acc
    ELSE separationLoop(this, Tail(others),
                        separationStep(this, Head(others), acc,
                                       distanceTo(this, Head(others))))

averaged(acc) == IF acc.count > 0 THEN multiply(acc.steer, 1, acc.count) ELSE acc.steer

getSeparation(this, neighbors) ==
    averaged(separationLoop(this, neighbors, [steer |-> Zero, count |-> 0]))

\* The loop of getCohesion (field = "position") and getAlignment ("velocity").
sumStep(this, other, field, acc, d) ==
    IF d > 0 /\ d < neighborhoodDistance * Scale
    THEN [steer |-> add(acc.steer, other[field]), count |-> acc.count + 1]
    ELSE acc

RECURSIVE sumLoop(_, _, _, _)
sumLoop(this, others, field, acc) ==
    IF others = <<>> THEN acc
    ELSE sumLoop(this, Tail(others), field,
                 sumStep(this, Head(others), field, acc, distanceTo(this, Head(others))))

towards(this, field, acc) ==
    IF acc.count > 0
    THEN normalize(subtract(multiply(acc.steer, 1, acc.count), this[field]))
    ELSE Zero

getCohesion(this, neighbors) ==
    towards(this, "position", sumLoop(this, neighbors, "position", [steer |-> Zero, count |-> 0]))

getAlignment(this, neighbors) ==
    towards(this, "velocity", sumLoop(this, neighbors, "velocity", [steer |-> Zero, count |-> 0]))

\* x.length() > 0 ? x.normalize().multiply(weight * 0.1) : new Vector2(0, 0)
weighted(force, weight) ==
    IF length(force) > 0 THEN multiply(normalize(force), weight, 10 * 100) ELSE Zero

\* The speed clamp.
clampTo(velocity, speed) ==
    IF speed > (maxSpeed * Scale) \div 100
    THEN multiply(normalize(velocity), maxSpeed, 100)
    ELSE IF speed > 0 /\ speed < (minVelocity * Scale) \div 100
    THEN multiply(normalize(velocity), minVelocity, 100)
    ELSE velocity

clamp(velocity) == clampTo(velocity, length(velocity))

\* Variant: the wrap shifts the coordinate by the extent.
wrapAxisShifting(p, extent) ==
    IF p < 0 THEN p + extent ELSE IF p > extent THEN p - extent ELSE p

\* One axis of the boundary wrap.
wrapAxis(p, extent) ==
    IF p < 0 THEN extent ELSE IF p > extent THEN 0 ELSE p

\* The local `wrapped`: whether an axis wrapped.
leftCanvas(moved, width, height) ==
    moved.x < 0 \/ moved.x > width \/ moved.y < 0 \/ moved.y > height

\* The wrap and, when an axis wrapped, the random kick (jitter): the boid after
\* the call, and `wrapped`.
wrap(this, velocity, moved, width, height, jitter) ==
    [boid |-> [this EXCEPT
                  !.position = Vector2(wrapAxis(moved.x, width), wrapAxis(moved.y, height)),
                  !.velocity = IF leftCanvas(moved, width, height)
                               THEN add(velocity, jitter)
                               ELSE velocity],
     wrapped |-> leftCanvas(moved, width, height)]

integrate(this, velocity, width, height, jitter) ==
    wrap(this, velocity, add(this.position, velocity), width, height, jitter)

steer(this, sep, coh, ali, wander, width, height, jitter) ==
    integrate(this,
              clamp(multiply(add(add(add(add(this.velocity,
                                             weighted(sep, separationWeight)),
                                         weighted(coh, cohesionWeight)),
                                     weighted(ali, alignmentWeight)),
                                 wander),
                             99, 100)),
              width, height, jitter)

flock(this, neighbors, wander, width, height, jitter) ==
    steer(this, getSeparation(this, neighbors), getCohesion(this, neighbors),
          getAlignment(this, neighbors), wander, width, height, jitter)

\* this.update(boids, canvasWidth, canvasHeight) for the boid `this`, with the
\* wander vector the clock gives and the kick Math.random gives.
boidUpdate(this, bs, width, height, wander, jitter) ==
    flock(this, getNeighbors(bs, this), wander, width, height, jitter)

(***************************************************************************)
(* Orchestrator: parameters                                                *)
(***************************************************************************)
\* strengths and the boost are in hundredths, distances in pixels
separationStrength == 50

maxSeparationDistance == 150

zoneAttractionStrength == 35

rushBackBoost == 200

chaosRepulsionStrength == 150

chaosRepulsionDistance == 200

chaosDuration == 60

\* zoneBoundaries, in hundredths of the canvas width
zoneBoundaries(band) ==
    CASE band = "low"  -> [min |-> 0,  max |-> 33]
      [] band = "mid"  -> [min |-> 33, max |-> 66]
      [] band = "high" -> [min |-> 66, max |-> 100]

getOtherBands(currentBand) ==
    CASE currentBand = "low"  -> <<"mid", "high">>
      [] currentBand = "mid"  -> <<"low", "high">>
      [] currentBand = "high" -> <<"low", "mid">>
      [] OTHER -> <<>>

\* groupBoidsByBand: each band's members in population order.  The groups hold
\* references to the Boid objects, here their indices in the population.
RECURSIVE groupLoop(_, _, _)
groupLoop(bs, i, grouped) ==
    IF i > Len(bs) THEN grouped
    ELSE groupLoop(bs, i + 1,
                   [grouped EXCEPT ![bs[i].band] = Append(grouped[bs[i].band], i)])

groupBoidsByBand(bs) == groupLoop(bs, 1, [band \in Bands |-> <<>>])

\* One iteration of the inner loop.  The steer is only ever normalized
\* afterwards, so it is carried Fine times finer than Scale: the integer n
\* stands for n / (Scale * Fine).
repelStep(boid, other, radius, acc, distance) ==
    IF distance > 0 /\ distance < radius * Scale
    THEN [steer |-> add(acc.steer,
                        \* .normalize().multiply(1 / (distance + 0.001))
                        multiply(normalize(subtract(boid.position, other.position)),
                                 5 * Scale * Fine, 5 * distance + 1)),
          count |-> acc.count + 1]
    ELSE acc

\* Variant: the loop over a band's members ends at the first one in range.
RECURSIVE groupRepelFirst(_, _, _, _, _)
groupRepelFirst(bs, boid, group, radius, acc) ==
    IF group = <<>> THEN acc
    ELSE IF distanceTo(boid, bs[Head(group)]) > 0
            /\ distanceTo(boid, bs[Head(group)]) < radius * Scale
    THEN repelStep(boid, bs[Head(group)], radius, acc, distanceTo(boid, bs[Head(group)]))
    ELSE groupRepelFirst(bs, boid, Tail(group), radius, acc)

\* The loop of getChaosRepulsion and getZoneSeparation over one other band's
\* members: the running (steer, count) after the members at `group`.
RECURSIVE groupRepel(_, _, _, _, _)
groupRepel(bs, boid, group, radius, acc) ==
    IF group = <<>> THEN acc
    ELSE groupRepel(bs, boid, Tail(group), radius,
                    repelStep(boid, bs[Head(group)], radius, acc,
                              distanceTo(boid, bs[Head(group)])))

\* The loop over the other bands.
RECURSIVE repelLoop(_, _, _, _, _, _)
repelLoop(bs, boid, boidsByBand, otherBands, radius, acc) ==
    IF otherBands = <<>> THEN acc
    ELSE repelLoop(bs, boid, boidsByBand, Tail(otherBands), radius,
                   groupRepel(bs, boid, boidsByBand[Head(otherBands)], radius, acc))

\* The tail of getChaosRepulsion, after its loops.
chaosSteer(acc, intensityNum) ==
    IF acc.count > 0
    THEN multiply(normalize(multiply(acc.steer, 1, acc.count)),
                  chaosRepulsionStrength * intensityNum, 100 * chaosDuration)
    ELSE acc.steer

getChaosRepulsion(bs, boid, boidsByBand, intensityNum) ==
    chaosSteer(repelLoop(bs, boid, boidsByBand, getOtherBands(boid.band),
                         chaosRepulsionDistance, [steer |-> Zero, count |-> 0]),
               intensityNum)

\* The tail of getZoneSeparation, after its loops.
separationSteer(acc) ==
    IF acc.count > 0
    THEN normalize(multiply(acc.steer, 1, acc.count))
    ELSE acc.steer

getZoneSeparation(bs, boid, boidsByBand) ==
    separationSteer(repelLoop(bs, boid, boidsByBand, getOtherBands(boid.band),
                              maxSeparationDistance, [steer |-> Zero, count |-> 0]))

\* force.x outside the zone, from normalizedDistance: the rush-back multiplier
\* 1 + normalizedDistance * rushBackBoost * 5 times the base strength.
rushBack(normalizedDistance) ==
    Quot(normalizedDistance * zoneAttractionStrength
            * (Scale + Quot(normalizedDistance * rushBackBoost * 5, 100)),
         100 * Scale)

\* Variant: the pull to the right has a minus sign.
pullRightNegated(normalizedDistance) == -rushBack(normalizedDistance)

\* Variant: the pull to the left lacks its minus sign.
pullLeftUnsigned(normalizedDistance) == rushBack(normalizedDistance)

\* force.x right of the zone
pullLeft(normalizedDistance) == -rushBack(normalizedDistance)

\* force.x left of the zone
pullRight(normalizedDistance) == rushBack(normalizedDistance)

\* force.x inside the zone: half the base strength toward the centre
centring(normalizedDistance) == Quot(normalizedDistance * zoneAttractionStrength, 2 * 100)

zoneForce(boidX, width, zoneMinX, zoneMaxX, zoneCenterX) ==
    IF boidX < zoneMinX
    THEN Vector2(pullRight(Quot((zoneMinX - boidX) * Scale, width)), 0)
    ELSE IF boidX > zoneMaxX
    THEN Vector2(pullLeft(Quot((boidX - zoneMaxX) * Scale, width)), 0)
    ELSE Vector2(centring(Quot((zoneCenterX - boidX) * Scale, width)), 0)

zoneEdges(boidX, width, zoneMinX, zoneMaxX) ==
    zoneForce(boidX, width, zoneMinX, zoneMaxX, Quot(zoneMinX + zoneMaxX, 2))

getZoneAttraction(boid, width) ==
    zoneEdges(boid.position.x, width,
              Quot(zoneBoundaries(boid.band).min * width, 100),
              Quot(zoneBoundaries(boid.band).max * width, 100))

withVelocity(boid, v) == [boid EXCEPT !.velocity = v]

\* boid.velocity.add(force), guarded by force.length() > 0
addForce(boid, force) ==
    IF length(force) > 0 THEN withVelocity(boid, add(boid.velocity, force)) ELSE boid

\* The chaos loop from the boid at index i on.  The groups alias the population,
\* so each force is computed from the population as the loop has left it.
\* Result: the population and the forces computed, in order.
\* The chaos loop from the boid at index i on; st holds the population as the
\* loop has left it and the forces computed so far, in order.
chaosStep(st, i, chaosForce) ==
    [boids |-> [st.boids EXCEPT ![i] = addForce(st.boids[i], chaosForce)],
     forces |-> Append(st.forces, chaosForce)]

RECURSIVE chaosLoop(_, _, _, _)
chaosLoop(st, i, boidsByBand, intensityNum) ==
    IF i > Len(st.boids) THEN st
    ELSE chaosLoop(chaosStep(st, i, getChaosRepulsion(st.boids, st.boids[i], boidsByBand,
                                                      intensityNum)),
                   i + 1, boidsByBand, intensityNum)

\* The zone loop's body for the boid at index i: the attraction is added first,
\* then the separation scaled by separationStrength.
separate(st, i, attracted, zoneAttractionForce, separationForce) ==
    [boids |-> [st.boids EXCEPT ![i] =
                   IF length(separationForce) > 0
                   THEN withVelocity(attracted,
                                     add(attracted.velocity,
                                         multiply(separationForce, separationStrength, 100)))
                   ELSE attracted],
     attractions |-> Append(st.attractions, zoneAttractionForce),
     separations |-> Append(st.separations,
                            IF length(separationForce) > 0
                            THEN multiply(separationForce, separationStrength, 100)
                            ELSE Zero)]

attract(st, i, boidsByBand, zoneAttractionForce) ==
    separate(st, i, addForce(st.boids[i], zoneAttractionForce), zoneAttractionForce,
             getZoneSeparation(st.boids, st.boids[i], boidsByBand))

RECURSIVE zoneLoop(_, _, _, _)
zoneLoop(st, i, boidsByBand, width) ==
    IF i > Len(st.boids) THEN st
    ELSE zoneLoop(attract(st, i, boidsByBand, getZoneAttraction(st.boids[i], width)),
                  i + 1, boidsByBand, width)

(***************************************************************************)
(* Orchestrator.update                                                     *)
(***************************************************************************)
NoData == [present |-> FALSE, amplitude |-> 0, beat |-> FALSE]

\* Variant: the countdown is armed on every idle call.
detectStopEveryIdle(was, isPlaying, remaining) ==
    IF ~isPlaying THEN chaosDuration ELSE remaining

\* Variant: resuming playback cancels a burst.
detectStopCancelling(was, isPlaying, remaining) ==
    IF was /\ ~isPlaying THEN chaosDuration ELSE IF isPlaying THEN 0 ELSE remaining

\* The countdown after the edge detection.
detectStop(was, isPlaying, remaining) ==
    IF was /\ ~isPlaying THEN chaosDuration ELSE remaining

\* Whether the chaos block runs.
chaosActive(remaining) == remaining > 0

\* Variant: the decrement is not guarded.
countDownUnguarded(remaining) == remaining - 1

\* Variant: the countdown stops one short of zero.
countDownStalling(remaining) == IF remaining > 1 THEN remaining - 1 ELSE remaining

\* The countdown after the chaos block.
countDown(remaining) ==
    IF chaosActive(remaining) THEN remaining - 1 ELSE remaining

\* chaosIntensity, as the numerator over chaosDuration.
chaosIntensity(remaining) == remaining

\* Variant: no early return.
zoneActiveAlways(isPlaying) == TRUE

\* Whether the zone loop runs (the early return when no music plays).
zoneActive(isPlaying) == isPlaying

\* The zone part of update, after the chaos block.
zonePart(chaos, isPlaying, boidsByBand, width) ==
    IF zoneActive(isPlaying)
    THEN zoneLoop([boids |-> chaos.boids, attractions |-> <<>>, separations |-> <<>>],
                  1, boidsByBand, width)
    ELSE [boids |-> chaos.boids,
          attractions |-> [i \in 1..Len(chaos.boids) |-> Zero],
          separations |-> [i \in 1..Len(chaos.boids) |-> Zero]]

\* The chaos block of update.
chaosPart(bs, boidsByBand, afterEdge, after) ==
    IF chaosActive(afterEdge)
    THEN chaosLoop([boids |-> bs, forces |-> <<>>], 1, boidsByBand, chaosIntensity(after))
    ELSE [boids |-> bs, forces |-> [i \in 1..Len(bs) |-> Zero]]

result(isPlaying, afterEdge, after, chaos, zone) ==
    [boids |-> zone.boids,
     wasPlaying |-> isPlaying,
     chaosFramesRemaining |-> after,
     afterEdge |-> afterEdge,
     chaosRan |-> chaosActive(afterEdge),
     intensityNum |-> IF chaosActive(afterEdge) THEN chaosIntensity(after) ELSE 0,
     chaosForces |-> chaos.forces,
     attractions |-> zone.attractions,
     separations |-> zone.separations]

afterChaos(isPlaying, boidsByBand, afterEdge, after, chaos, width) ==
    result(isPlaying, afterEdge, after, chaos,
           zonePart(chaos, isPlaying, boidsByBand, width))

afterEdgeDetection(bs, isPlaying, boidsByBand, width, afterEdge) ==
    afterChaos(isPlaying, boidsByBand, afterEdge, countDown(afterEdge),
               chaosPart(bs, boidsByBand, afterEdge, countDown(afterEdge)), width)

\* Everything one update call computes from (population, frequencyData, width)
\* and the controller's fields: the edge detection, the grouping, the chaos
\* block, the zone loop.
update(bs, frequencyData, width, was, remaining) ==
    afterEdgeDetection(bs, frequencyData.present, groupBoidsByBand(bs), width,
                       detectStop(was, frequencyData.present, remaining))

(***************************************************************************)
(* The zone controller driven tick by tick: any sequence of update calls,  *)
(* each handed a FrequencyData or none, on a population that nothing else  *)
(* moves.                                                                  *)
(***************************************************************************)
MaxPlayCalls == 2

px(n) == n * Scale

SinceCap == chaosDuration + 2

\* FrequencyData snapshots (update reads only whether one is present)
Snapshots == {[present |-> TRUE, amplitude |-> 0, beat |-> FALSE],
              [present |-> TRUE, amplitude |-> 100, beat |-> TRUE]}

\* Boid's constructor draws the velocity at random in [-2, 2) on both axes
StartVelocities == {Vector2(0, 0), Vector2(100, -60)}

\* ... over its whole range for the boid that is alone: -2 and just under 2 are
\* the ends
LoneVelocities == {Vector2(-400, 0), Vector2(-1, 50), Vector2(0, 0), Vector2(399, -400)}

\* One population with neighbours of other bands inside the chaos radius (50,
\* 133 and 170 pixels apart, the last outside the separation radius) and one
\* boid left of, one inside and one right of its zone; one population whose
\* bands are more than the chaos radius apart.
Scenarios ==
    {[width |-> px(300), height |-> px(300),
      boids |-> <<Boid(Vector2(px(100), px(100)), Vector2(0, 0), "low"),
                  Boid(Vector2(px(130), px(140)), Vector2(60, 0), "mid"),
                  Boid(Vector2(px(100), px(270)), Vector2(-40, 20), "high")>>]}
    \cup
    {[width |-> px(300), height |-> px(300),
      boids |-> <<Boid(Vector2(px(40), px(100)), v, "low"),
                  Boid(Vector2(px(60), px(100)), Vector2(20, 20), "low"),
                  Boid(Vector2(px(260), px(100)), Vector2(0, -80), "mid")>>]
        : v \in StartVelocities}
    \cup
    {[width |-> px(1000), height |-> px(300),
      boids |-> <<Boid(Vector2(-px(10), px(100)), v, "low")>>]
        : v \in LoneVelocities}

velocities(bs) == [i \in 1..Len(bs) |-> bs[i].velocity]

NoCall == [kind |-> "none"]

\* Before the first update call: nothing read, nothing computed.
NoUpdate(bs) ==
    [called |-> FALSE, frequencyData |-> NoData, previous |-> FALSE,
     entry |-> 0, afterEdge |-> 0, chaosRan |-> FALSE, intensityNum |-> 0,
     chaosForces |-> [i \in 1..Len(bs) |-> Zero],
     attractions |-> [i \in 1..Len(bs) |-> Zero],
     separations |-> [i \in 1..Len(bs) |-> Zero],
     before |-> velocities(bs)]

\* new Orchestrator(), and a population on a canvas
Constructed(bs, width, height) ==
    /\ boids = bs
    /\ canvasWidth = width
    /\ canvasHeight = height
    /\ last = NoUpdate(bs)
    /\ wasPlaying = FALSE
    /\ chaosFramesRemaining = 0
    /\ sinceStop = 0
    /\ playCalls = 0

\* No Orchestra, no page: the controller or a function is driven directly.
Detached ==
    /\ orchestra = [constructed |-> FALSE]
    /\ controls = [playDisabled |-> TRUE, pauseDisabled |-> TRUE]
    /\ frame = [n |-> 0]

Init ==
    /\ \E s \in Scenarios : Constructed(s.boids, s.width, s.height)
    /\ call = NoCall
    /\ Detached

\* The record of one update call: what it was handed, what it found and what
\* it computed.
Observe(frequencyData, r) ==
    /\ last' = [called |-> TRUE, frequencyData |-> frequencyData,
                 previous |-> last.frequencyData.present,
                 entry |-> chaosFramesRemaining, afterEdge |-> r.afterEdge,
                 chaosRan |-> r.chaosRan, intensityNum |-> r.intensityNum,
                 chaosForces |-> r.chaosForces, attractions |-> r.attractions,
                 separations |-> r.separations, before |-> velocities(boids)]
    /\ sinceStop' = IF last.frequencyData.present /\ ~frequencyData.present THEN 1
                    ELSE IF sinceStop = 0 \/ sinceStop = SinceCap THEN sinceStop
                    ELSE sinceStop + 1
    /\ playCalls' = IF frequencyData.present THEN playCalls + 1 ELSE playCalls

\* orchestrator.update(boids, frequencyData, canvas.width, canvas.height)
Update(frequencyData) ==
    /\ frequencyData.present => playCalls < MaxPlayCalls
    /\ \E r \in {update(boids, frequencyData, canvasWidth, wasPlaying, chaosFramesRemaining)} :
        /\ boids' = r.boids
        /\ wasPlaying' = r.wasPlaying
        /\ chaosFramesRemaining' = r.chaosFramesRemaining
        /\ Observe(frequencyData, r)
        /\ UNCHANGED <<canvasWidth, canvasHeight, call, orchestra, controls, frame>>

UpdateIdle == Update(NoData)

UpdatePlaying == \E frequencyData \in Snapshots : Update(frequencyData)

Next == UpdateIdle \/ UpdatePlaying

Spec == Init /\ [][Next]_vars

(***************************************************************************)
(* getZoneAttraction applied to one boid: every band, three widths, and x  *)
(* at, next to and away from the edges and midpoints of the zones.         *)
(***************************************************************************)
AttractionWidths == {px(100), px(300), px(1000)}

AttractionXs(width) ==
    {-px(10), -1, 0, 1, width - 1, width, width + 1, width + px(10)}
    \cup {(h * width) \div 200 + d : h \in {33, 66, 99, 132, 166}, d \in {-1, 0, 1}}

InitAttraction ==
    /\ Constructed(<<>>, 0, 0)
    /\ Detached
    /\ \E band \in Bands, width \in AttractionWidths :
         \E x \in AttractionXs(width) :
            call = [kind |-> "getZoneAttraction", done |-> FALSE,
                    boid |-> Boid(Vector2(x, px(50)), Zero, band),
                    width |-> width, force |-> Zero]

ApplyZoneAttraction ==
    /\ call.kind = "getZoneAttraction" /\ ~call.done
    /\ call' = [call EXCEPT !.done = TRUE,
                            !.force = getZoneAttraction(call.boid, call.width)]
    /\ UNCHANGED <<boids, canvasWidth, canvasHeight, wasPlaying, chaosFramesRemaining,
                   last, sinceStop, playCalls, orchestra, controls, frame>>

NextAttraction == ApplyZoneAttraction

SpecAttraction == InitAttraction /\ [][NextAttraction]_vars

(***************************************************************************)
(* Boid.update applied once to the first boid of a population.             *)
(***************************************************************************)
\* getWander: wanderStrength (0.015) along the heading the clock gives
Wanders == {Vector2(3, 0), Vector2(-3, 0), Vector2(0, 3), Vector2(0, -3)}

\* (Math.random() - 0.5) * 0.5 on both axes: within [-0.25, 0.25)
Jitters == {Vector2(0, 0), Vector2(49, 49), Vector2(-50, 49), Vector2(49, -50)}

ThisPositions ==
    {Vector2(px(50), px(50)), Vector2(1, px(50)), Vector2(px(100) - 1, px(99)),
     Vector2(-px(150), px(50)), Vector2(px(50), px(250))}

ThisVelocities ==
    {Vector2(-3, 0), Vector2(-10, 0), Vector2(-400, 0), Vector2(400, -300),
     Vector2(600, 800), Vector2(0, 390)}

\* the other boids, as offsets from this one: none; one inside the separation
\* distance; one inside the neighbourhood only and one outside it
OtherOffsets ==
    {<<>>,
     <<[at |-> Vector2(px(6), px(8)), velocity |-> Vector2(100, 0), band |-> "low"]>>,
     <<[at |-> Vector2(-px(40), 0), velocity |-> Vector2(0, -200), band |-> "mid"],
       [at |-> Vector2(0, px(100)), velocity |-> Vector2(300, 0), band |-> "high"]>>}

Extents == {[width |-> px(100), height |-> px(100)], [width |-> 0, height |-> px(100)]}

population(p, v, others) ==
    <<Boid(p, v, "low")>>
    \o [i \in 1..Len(others) |->
           Boid(add(p, others[i].at), others[i].velocity, others[i].band)]

InitBoid ==
    \E p \in ThisPositions, v \in ThisVelocities, others \in OtherOffsets, e \in Extents :
        /\ Constructed(population(p, v, others), e.width, e.height)
        /\ Detached
        /\ call = [kind |-> "Boid.update", done |-> FALSE, wander |-> Zero,
                   jitter |-> Zero, wrapped |-> FALSE,
                   before |-> population(p, v, others)[1]]

\* boids[1].update(boids, canvas.width, canvas.height)
UpdateBoid ==
    /\ call.kind = "Boid.update" /\ ~call.done
    /\ \E wander \in Wanders, jitter \in Jitters :
         \E r \in {boidUpdate(boids[1], boids, canvasWidth, canvasHeight, wander, jitter)} :
            /\ boids' = [boids EXCEPT ![1] = r.boid]
            /\ call' = [call EXCEPT !.done = TRUE, !.wander = wander, !.jitter = jitter,
                                    !.wrapped = r.wrapped]
    /\ UNCHANGED <<canvasWidth, canvasHeight, wasPlaying, chaosFramesRemaining,
                   last, sinceStop, playCalls, orchestra, controls, frame>>

NextBoid == UpdateBoid

SpecBoid == InitBoid /\ [][NextBoid]_vars

(***************************************************************************)
(* Orchestrator.update applied, while music plays, to two boids of         *)
(* different bands that are alone, once at a nearer and once at a farther  *)
(* distance along the same direction.                                      *)
(***************************************************************************)
\* distances inside maxSeparationDistance, in pixels
PairDistances == {1, 5, 50, 145}

\* directions, as fifths
PairDirections == {Vector2(5, 0), Vector2(0, 5), Vector2(-5, 0), Vector2(3, 4)}

pairAt(bandA, bandB, dir, d) ==
    <<Boid(Vector2(px(400), px(300)), Zero, bandA),
      Boid(Vector2(px(400) + (d * Scale * dir.x) \div 5,
                   px(300) + (d * Scale * dir.y) \div 5), Zero, bandB)>>

InitSeparation ==
    /\ Constructed(<<>>, px(1000), px(600))
    /\ Detached
    /\ \E bandA \in Bands, bandB \in Bands, dir \in PairDirections :
         \E near \in PairDistances, far \in PairDistances :
            /\ bandA # bandB /\ near < far
            /\ call = [kind |-> "separation", done |-> FALSE,
                       near |-> pairAt(bandA, bandB, dir, near),
                       far |-> pairAt(bandA, bandB, dir, far),
                       nearForces |-> <<Zero, Zero>>, farForces |-> <<Zero, Zero>>]

\* orchestrator.update(pair, frequencyData, ...) on a new Orchestrator, for each
\* of the two placements
ApplySeparation ==
    /\ call.kind = "separation" /\ ~call.done
    /\ \E frequencyData \in Snapshots :
         call' = [call EXCEPT
                    !.done = TRUE,
                    !.nearForces = update(call.near, frequencyData, canvasWidth,
                                          FALSE, 0).separations,
                    !.farForces = update(call.far, frequencyData, canvasWidth,
                                         FALSE, 0).separations]
    /\ UNCHANGED <<boids, canvasWidth, canvasHeight, wasPlaying, chaosFramesRemaining,
                   last, sinceStop, playCalls, orchestra, controls, frame>>

NextSeparation == ApplySeparation

SpecSeparation == InitSeparation /\ [][NextSeparation]_vars

(***************************************************************************)
(* Orchestra (orchestra.ts).  Energies are fixed point: n stands for       *)
(* n / EnergyOne.                                                          *)
(***************************************************************************)
EnergyOne == 10000

FFT_SIZE == 2048
ZONES == 3
SUBBANDS == 5
NYQUIST_HZ == 22050
\* smoothFactor 0.1 and beatThreshold 1.5, in hundredths
smoothFactor == 10
beatThreshold == 150

ZONE_BOUNDARIES ==
    <<[name |-> "low", min |-> 20, max |-> 250],
      [name |-> "mid", min |-> 250, max |-> 2000],
      [name |-> "high", min |-> 2000, max |-> 8000]>>

\* analyser.frequencyBinCount is half the FFT size
frequencyBinCount == FFT_SIZE \div 2

NoSource == [node |-> "null"]

\* The fields after the constructor
NewOrchestra ==
    [constructed |-> TRUE,
     audioBuffer |-> "null",
     source |-> NoSource,
     frequencyData |-> [bin \in 0..(frequencyBinCount - 1) |-> 0],
     smoothedSubBands |-> [i \in 1..(ZONES * SUBBANDS) |-> 0],
     previousAmplitude |-> 0]

\* Variant: a failure drops the buffer loaded before.
loadAudioClearing(o, file, decoded) ==
    IF decoded THEN [o EXCEPT !.audioBuffer = file] ELSE [o EXCEPT !.audioBuffer = "null"]

\* loadAudio: the decoded buffer is stored; a failure is rethrown and stores
\* nothing
loadAudio(o, file, decoded) ==
    IF decoded THEN [o EXCEPT !.audioBuffer = file] ELSE o

\* the promise loadAudio returns: the catch block rethrows
loadAudioRejects(decoded) == ~decoded

\* play: nothing without a buffer; otherwise a new source on the buffer, started
play(o) ==
    IF o.audioBuffer = "null" THEN o
    ELSE [o EXCEPT !.source = [node |-> "source", buffer |-> o.audioBuffer,
                               state |-> "playing"]]

\* stop
stop(o) ==
    IF o.source # NoSource THEN [o EXCEPT !.source = NoSource] ELSE o

\* isPlaying
isPlaying(o) == o.source # NoSource

\* Whether sound is coming out: a started source that has not reached the end
\* of its buffer.
audible(o) == o.source # NoSource /\ o.source.state = "playing"

\* The array extractSubBands reads after getByteFrequencyData was handed
\* `new Uint8Array(this.frequencyData)`: the capture lands in the copy.
analysed(frequencyData, captured) == frequencyData

hzToBin(hz, binCount) == (hz * binCount) \div NYQUIST_HZ

ceilDiv(a, b) == (a + b - 1) \div b

RECURSIVE binSum(_, _, _, _, _)
binSum(data, bin, binEnd, binCount, energy) ==
    IF bin >= binEnd THEN energy
    ELSE binSum(data, bin + 1, binEnd, binCount,
                IF bin < binCount THEN energy + data[bin] ELSE energy)

Min(a, b) == IF a < b THEN a ELSE b

\* Variant: the sum is not normalized by the width of the sub-band.
subBandEnergyUnscaled(data, binStart, binEnd, binCount) ==
    Quot(binSum(data, binStart, binEnd, binCount, 0) * EnergyOne, 255)

\* energy / (binEnd - binStart) / 255 for the sum of the bins [binStart, binEnd).
\* The sum of no bins is 0, and 0 over a negative width is (minus) zero; the
\* fixed boundaries give no sub-band of width 0.
subBandEnergy(data, binStart, binEnd, binCount) ==
    IF binEnd < binStart
    THEN -Quot(binSum(data, binStart, binEnd, binCount, 0) * EnergyOne,
               (binStart - binEnd) * 255)
    ELSE Quot(binSum(data, binStart, binEnd, binCount, 0) * EnergyOne,
              (binEnd - binStart) * 255)

\* binStart and binEnd of the sub-band subIdx of a zone
subBandRange(minBin, maxBin, subBandSize, subIdx) ==
    [binStart |-> minBin + subIdx * subBandSize,
     binEnd |-> Min(minBin + subIdx * subBandSize + subBandSize, maxBin)]

rangeEnergy(data, range, binCount) ==
    subBandEnergy(data, range.binStart, range.binEnd, binCount)

subBandOf(data, minBin, maxBin, subBandSize, subIdx, binCount) ==
    rangeEnergy(data, subBandRange(minBin, maxBin, subBandSize, subIdx), binCount)

zoneSubBand(data, minBin, maxBin, subIdx, binCount) ==
    subBandOf(data, minBin, maxBin, ceilDiv(maxBin - minBin, SUBBANDS), subIdx, binCount)

extractSubBands(data, binCount) ==
    [i \in 1..(ZONES * SUBBANDS) |->
        zoneSubBand(data,
                    hzToBin(ZONE_BOUNDARIES[(i - 1) \div SUBBANDS + 1].min, binCount),
                    hzToBin(ZONE_BOUNDARIES[(i - 1) \div SUBBANDS + 1].max, binCount),
                    (i - 1) % SUBBANDS, binCount)]

\* minBin and maxBin of a zone
zoneBins(zoneIdx, binCount) ==
    [minBin |-> hzToBin(ZONE_BOUNDARIES[zoneIdx + 1].min, binCount),
     maxBin |-> hzToBin(ZONE_BOUNDARIES[zoneIdx + 1].max, binCount)]

zoneRange(bins, subIdx) ==
    subBandRange(bins.minBin, bins.maxBin, ceilDiv(bins.maxBin - bins.minBin, SUBBANDS),
                 subIdx)

\* the bin ranges extractSubBands sums, in the order of the sub-bands
subBandRanges(binCount) ==
    [i \in 1..(ZONES * SUBBANDS) |->
        zoneRange(zoneBins((i - 1) \div SUBBANDS, binCount), (i - 1) % SUBBANDS)]

smoothFrequencyData(smoothed, rawSubBands) ==
    [i \in 1..Len(rawSubBands) |->
        Quot(smoothed[i] * (100 - smoothFactor) + rawSubBands[i] * smoothFactor, 100)]

\* Variant: a later sub-band of equal energy replaces the dominant one.
RECURSIVE dominantLoopLast(_, _, _, _)
dominantLoopLast(energies, i, maxEnergy, dominantBandIndex) ==
    IF i > Len(energies) THEN dominantBandIndex
    ELSE IF energies[i] >= maxEnergy
         THEN dominantLoopLast(energies, i + 1, energies[i], i - 1)
         ELSE dominantLoopLast(energies, i + 1, maxEnergy, dominantBandIndex)

RECURSIVE dominantLoop(_, _, _, _)
dominantLoop(energies, i, maxEnergy, dominantBandIndex) ==
    IF i > Len(energies) THEN dominantBandIndex
    ELSE IF energies[i] > maxEnergy
         THEN dominantLoop(energies, i + 1, energies[i], i - 1)
         ELSE dominantLoop(energies, i + 1, maxEnergy, dominantBandIndex)

RECURSIVE reduceSum(_, _, _)
reduceSum(energies, i, acc) ==
    IF i > Len(energies) THEN acc ELSE reduceSum(energies, i + 1, acc + energies[i])

subBandData(energies, dominantBandIndex, averageEnergy) ==
    [energies |-> energies,
     dominantBandIndex |-> dominantBandIndex,
     averageEnergy |-> averageEnergy,
     target |-> Vector2(((2 * dominantBandIndex + 1) * EnergyOne) \div (2 * SUBBANDS),
                        averageEnergy)]

createSubBandData(smoothed, zoneIdx) ==
    subBandData(SubSeq(smoothed, zoneIdx * SUBBANDS + 1, zoneIdx * SUBBANDS + SUBBANDS),
                dominantLoop(SubSeq(smoothed, zoneIdx * SUBBANDS + 1,
                                    zoneIdx * SUBBANDS + SUBBANDS), 1, 0, 0),
                Quot(reduceSum(SubSeq(smoothed, zoneIdx * SUBBANDS + 1,
                                      zoneIdx * SUBBANDS + SUBBANDS), 1, 0), SUBBANDS))

zoneData(low, mid, high) ==
    [zones |-> [low |-> low, mid |-> mid, high |-> high],
     totalAmplitude |-> Quot(low.averageEnergy + mid.averageEnergy + high.averageEnergy, 3)]

computeZoneData(smoothed) ==
    zoneData(createSubBandData(smoothed, 0), createSubBandData(smoothed, 1),
             createSubBandData(smoothed, 2))

\* Variant: the two comparisons are not strict.
detectBeatInclusive(currentAmplitude, previousAmplitude) ==
    /\ 100 * 1000 * currentAmplitude >= beatThreshold * (1000 * previousAmplitude + EnergyOne)
    /\ 10 * currentAmplitude >= EnergyOne

\* currentAmplitude / (previousAmplitude + 0.001) > beatThreshold, and
\* currentAmplitude > 0.1
detectBeat(currentAmplitude, previousAmplitude) ==
    /\ 100 * 1000 * currentAmplitude > beatThreshold * (1000 * previousAmplitude + EnergyOne)
    /\ 10 * currentAmplitude > EnergyOne

FrequencyData(zones, amplitude, beat) ==
    [present |-> TRUE, zones |-> zones, amplitude |-> amplitude, beat |-> beat]

analysis(o, smoothed, zd) ==
    [orchestra |-> [o EXCEPT !.smoothedSubBands = smoothed,
                             !.previousAmplitude = zd.totalAmplitude],
     frequencyData |-> FrequencyData(zd.zones, zd.totalAmplitude,
                                     detectBeat(zd.totalAmplitude, o.previousAmplitude))]

smoothedAnalysis(o, smoothed) == analysis(o, smoothed, computeZoneData(smoothed))

\* processAudio, the analyser having `captured` to deliver: the fields after
\* the call and the FrequencyData returned
processAudio(o, captured) ==
    smoothedAnalysis(o, smoothFrequencyData(o.smoothedSubBands,
                            extractSubBands(analysed(o.frequencyData, captured),
                                            frequencyBinCount)))

(***************************************************************************)
(* The Orchestra driven call by call: any sequence of processAudio calls   *)
(* on a new Orchestra, the analyser capturing any spectrum on each.        *)
(***************************************************************************)
MaxAudioCalls == 3

SpectrumLevels == {1, 50, 128, 255}

SpectrumPeriods == {1, 2, 3, 4, 5, 7, 11, 13, 50, 400}

\* byte magnitudes: silence, and a level on every bin that is a multiple of a
\* period
AudioSpectra ==
    {[bin \in 0..(frequencyBinCount - 1) |-> 0]}
    \cup {[bin \in 0..(frequencyBinCount - 1) |-> IF bin % period = 0 THEN level ELSE 0] :
             level \in SpectrumLevels, period \in SpectrumPeriods}

NoAudioCall ==
    [kind |-> "processAudio", n |-> 0, captured |-> <<>>, read |-> <<>>, raw |-> <<>>,
     ranges |-> <<>>, before |-> <<>>, previous |-> 0, data |-> NoData]

\* an Orchestra whose buffer holds `buffer`, and nothing else
Analysing(buffer) ==
    /\ Constructed(<<>>, 0, 0)
    /\ orchestra = [NewOrchestra EXCEPT !.frequencyData = buffer]
    /\ controls = [playDisabled |-> TRUE, pauseDisabled |-> TRUE]
    /\ frame = [n |-> 0]
    /\ call = NoAudioCall

InitAudio == Analysing(NewOrchestra.frequencyData)

\* orchestra.processAudio(), with what it read and computed on the way, the
\* analyser capturing one of `spectra`
processAudioCall(spectra) ==
    /\ call.n < MaxAudioCalls
    /\ \E captured \in spectra :
         \E r \in {processAudio(orchestra, captured)} :
            /\ orchestra' = r.orchestra
            /\ call' = [kind |-> "processAudio", n |-> call.n + 1,
                         captured |-> captured,
                         read |-> analysed(orchestra.frequencyData, captured),
                         raw |-> extractSubBands(analysed(orchestra.frequencyData, captured),
                                                 frequencyBinCount),
                         ranges |-> subBandRanges(frequencyBinCount),
                         before |-> orchestra.smoothedSubBands,
                         previous |-> orchestra.previousAmplitude,
                         data |-> r.frequencyData]
    /\ UNCHANGED <<boids, canvasWidth, canvasHeight, wasPlaying, chaosFramesRemaining,
                   last, sinceStop, playCalls, controls, frame>>

ProcessAudio == processAudioCall(AudioSpectra)

NextAudio == ProcessAudio

SpecAudio == InitAudio /\ [][NextAudio]_vars

(***************************************************************************)
(* processAudio as a function of the fields it reads: called repeatedly on *)
(* an Orchestra whose buffer holds any byte magnitudes and whose smoothed   *)
(* energies start at one end of their range.                               *)
(***************************************************************************)
\* silence, full scale, half scale, and two combs
Buffers ==
    {[bin \in 0..(frequencyBinCount - 1) |-> 0],
     [bin \in 0..(frequencyBinCount - 1) |-> 255],
     [bin \in 0..(frequencyBinCount - 1) |-> 128],
     [bin \in 0..(frequencyBinCount - 1) |-> IF bin % 2 = 0 THEN 255 ELSE 0],
     [bin \in 0..(frequencyBinCount - 1) |-> IF bin % 7 = 0 THEN 1 ELSE 254],
     [bin \in 0..(frequencyBinCount - 1) |-> IF bin < 92 THEN 255 ELSE 3]}

InitSmoothing ==
    /\ Constructed(<<>>, 0, 0)
    /\ \E buffer \in Buffers, start \in {0, EnergyOne} :
         orchestra = [NewOrchestra EXCEPT !.frequencyData = buffer,
                                          !.smoothedSubBands = [i \in 1..(ZONES * SUBBANDS) |-> start]]
    /\ controls = [playDisabled |-> TRUE, pauseDisabled |-> TRUE]
    /\ frame = [n |-> 0]
    /\ call = NoAudioCall

SmoothAudio == processAudioCall(Buffers)

NextSmoothing == SmoothAudio

SpecSmoothing == InitSmoothing /\ [][NextSmoothing]_vars

(***************************************************************************)
(* createSubBandData applied to one zone of any smoothed energies.         *)
(***************************************************************************)
\* 0, 0.3 and 1
ZoneEnergies == {0, (3 * EnergyOne) \div 10, EnergyOne}

\* the fifteen smoothed energies: `energies` in the zone, `elsewhere` in the
\* two other zones
smoothedWith(zoneIdx, energies, elsewhere) ==
    [i \in 1..(ZONES * SUBBANDS) |->
        IF (i - 1) \div SUBBANDS = zoneIdx THEN energies[((i - 1) % SUBBANDS) + 1]
        ELSE elsewhere]

InitSubBand ==
    /\ Constructed(<<>>, 0, 0)
    /\ Detached
    /\ \E zoneIdx \in 0..(ZONES - 1), energies \in [1..SUBBANDS -> ZoneEnergies] :
         call = [kind |-> "createSubBandData", done |-> FALSE, zoneIdx |-> zoneIdx,
                 smoothed |-> smoothedWith(zoneIdx, energies, EnergyOne \div 2),
                 data |-> NoData]

ApplySubBandData ==
    /\ call.kind = "createSubBandData" /\ ~call.done
    /\ call' = [call EXCEPT !.done = TRUE,
                            !.data = createSubBandData(call.smoothed, call.zoneIdx)]
    /\ UNCHANGED <<boids, canvasWidth, canvasHeight, wasPlaying, chaosFramesRemaining,
                   last, sinceStop, playCalls, orchestra, controls, frame>>

NextSubBand == ApplySubBandData

SpecSubBand == InitSubBand /\ [][NextSubBand]_vars

(***************************************************************************)
(* The end of processAudio (beat detection and the amplitude kept for the  *)
(* next call) applied tick by tick to a sequence of global amplitudes.     *)
(***************************************************************************)
MaxBeatTicks == 3

\* 0, 0.05, 0.099, 0.1, just above 0.1, 0.15, just above 0.15, 0.5
Amplitudes ==
    {0, EnergyOne \div 20, (99 * EnergyOne) \div 1000, EnergyOne \div 10,
     EnergyOne \div 10 + 1, (15 * EnergyOne) \div 100, (15 * EnergyOne) \div 100 + 1,
     EnergyOne \div 2}

\* the zones of silence
SilentZones == computeZoneData(NewOrchestra.smoothedSubBands).zones

InitBeat ==
    /\ Constructed(<<>>, 0, 0)
    /\ orchestra = NewOrchestra
    /\ controls = [playDisabled |-> TRUE, pauseDisabled |-> TRUE]
    /\ frame = [n |-> 0]
    /\ \E amplitudes \in [1..MaxBeatTicks -> Amplitudes] :
         call = [kind |-> "detectBeat", amplitudes |-> amplitudes, tick |-> 0,
                 current |-> 0, previous |-> 0, beat |-> FALSE, flags |-> <<>>]

\* processAudio from detectBeat on, the zone data having the next amplitude
BeatTick ==
    /\ call.kind = "detectBeat" /\ call.tick < Len(call.amplitudes)
    /\ \E r \in {analysis(orchestra, orchestra.smoothedSubBands,
                           [zones |-> SilentZones,
                            totalAmplitude |-> call.amplitudes[call.tick + 1]])} :
        /\ orchestra' = r.orchestra
        /\ call' = [call EXCEPT !.tick = call.tick + 1,
                                !.current = r.frequencyData.amplitude,
                                !.previous = orchestra.previousAmplitude,
                                !.beat = r.frequencyData.beat,
                                !.flags = Append(call.flags, r.frequencyData.beat)]
    /\ UNCHANGED <<boids, canvasWidth, canvasHeight, wasPlaying, chaosFramesRemaining,
                   last, sinceStop, playCalls, controls, frame>>

NextBeat == BeatTick

SpecBeat == InitBeat /\ [][NextBeat]_vars

(***************************************************************************)
(* Orchestrator.update applied to the same population, with the same       *)
(* history, once for each of two FrequencyData snapshots.                  *)
(***************************************************************************)
\* smoothed energies: silence, full scale, one loud sub-band in the low zone,
\* one in the mid zone over a floor
ContentEnergies ==
    {[i \in 1..(ZONES * SUBBANDS) |-> 0],
     [i \in 1..(ZONES * SUBBANDS) |-> EnergyOne],
     [i \in 1..(ZONES * SUBBANDS) |-> IF i = 5 THEN EnergyOne ELSE 0],
     [i \in 1..(ZONES * SUBBANDS) |-> IF i = 8 THEN EnergyOne \div 2 ELSE EnergyOne \div 10]}

snapshotOf(zd, beat) == FrequencyData(zd.zones, zd.totalAmplitude, beat)

\* the FrequencyData processAudio emits for those energies
ContentSnapshots ==
    {snapshotOf(computeZoneData(smoothed), beat) :
        smoothed \in ContentEnergies, beat \in BOOLEAN}

\* wasPlaying and chaosFramesRemaining: new, playing, in a burst, resumed in one
Histories ==
    {[wasPlaying |-> FALSE, chaosFramesRemaining |-> 0],
     [wasPlaying |-> TRUE, chaosFramesRemaining |-> 0],
     [wasPlaying |-> FALSE, chaosFramesRemaining |-> chaosDuration \div 2],
     [wasPlaying |-> TRUE, chaosFramesRemaining |-> chaosDuration \div 2]}

forcesOf(r) ==
    [chaosForces |-> r.chaosForces, attractions |-> r.attractions,
     separations |-> r.separations, velocities |-> velocities(r.boids),
     wasPlaying |-> r.wasPlaying, chaosFramesRemaining |-> r.chaosFramesRemaining]

InitContent ==
    /\ \E s \in Scenarios, h \in Histories :
        /\ boids = s.boids
        /\ canvasWidth = s.width
        /\ canvasHeight = s.height
        /\ last = NoUpdate(s.boids)
        /\ wasPlaying = h.wasPlaying
        /\ chaosFramesRemaining = h.chaosFramesRemaining
        /\ sinceStop = 0
        /\ playCalls = 0
    /\ Detached
    /\ \E first \in ContentSnapshots, second \in ContentSnapshots :
        call = [kind |-> "content", done |-> FALSE, first |-> first, second |-> second,
                firstForces |-> <<>>, secondForces |-> <<>>]

\* orchestrator.update(boids, first, ...) and, from the same state,
\* orchestrator.update(boids, second, ...)
ApplyContent ==
    /\ call.kind = "content" /\ ~call.done
    /\ call' = [call EXCEPT
                   !.done = TRUE,
                   !.firstForces = forcesOf(update(boids, call.first, canvasWidth,
                                                   wasPlaying, chaosFramesRemaining)),
                   !.secondForces = forcesOf(update(boids, call.second, canvasWidth,
                                                    wasPlaying, chaosFramesRemaining))]
    /\ UNCHANGED <<boids, canvasWidth, canvasHeight, wasPlaying, chaosFramesRemaining,
                   last, sinceStop, playCalls, orchestra, controls, frame>>

NextContent == ApplyContent

SpecContent == InitContent /\ [][NextContent]_vars

(***************************************************************************)
(* The page (main.ts): the file input, the two buttons, the playback       *)
(* source running to the end of its buffer, window resizes and animation   *)
(* frames.                                                                 *)
(***************************************************************************)
MaxFrames == 2

Files == {"a"}

\* what the analyser captures on a frame
Spectra ==
    {[bin \in 0..(frequencyBinCount - 1) |-> 0],
     [bin \in 0..(frequencyBinCount - 1) |-> bin % 256]}

\* the headings getWander gives the boids of a frame, in order
FrameWanders ==
    {<<Vector2(3, 0), Vector2(0, 3), Vector2(-3, 0)>>,
     <<Vector2(0, -3), Vector2(3, 0), Vector2(0, 3)>>}

FrameJitters == {<<Vector2(49, 49), Vector2(-50, 49), Vector2(0, 0)>>}

\* window.innerWidth x window.innerHeight
Windows == {[width |-> px(300), height |-> px(300)], [width |-> px(200), height |-> px(120)]}

\* createBoids(1): one boid per band, anywhere in the window
Flocks ==
    {<<Boid(Vector2(px(100), px(100)), Vector2(0, 0), "low"),
       Boid(Vector2(px(130), px(140)), Vector2(60, 0), "mid"),
       Boid(Vector2(px(100), px(119)), Vector2(-40, 20), "high")>>}

NoFrame == [n |-> 0, isPlaying |-> FALSE, audible |-> FALSE, ended |-> FALSE,
            heard |-> FALSE, steered |-> <<>>, wanders |-> <<>>, jitters |-> <<>>]

InitApp ==
    /\ \E bs \in Flocks, w \in Windows : Constructed(bs, w.width, w.height)
    /\ call = NoCall
    /\ orchestra = NewOrchestra
    /\ controls = [playDisabled |-> TRUE, pauseDisabled |-> TRUE]
    /\ frame = NoFrame

appVars == <<boids, wasPlaying, chaosFramesRemaining, last, sinceStop, playCalls, frame>>

\* fileInput `change` with a file (and the label's `drop` of an audio file)
LoadAudio ==
    /\ \E file \in Files, decoded \in BOOLEAN :
        /\ orchestra' = loadAudio(orchestra, file, decoded)
        /\ controls' = IF loadAudioRejects(decoded) THEN controls
                       ELSE [controls EXCEPT !.playDisabled = FALSE]
        /\ call' = [kind |-> "loadAudio", file |-> file, decoded |-> decoded,
                     rejected |-> loadAudioRejects(decoded)]
    /\ UNCHANGED <<appVars, canvasWidth, canvasHeight>>

\* playBtn `click`
Play ==
    /\ ~controls.playDisabled
    /\ orchestra' = play(orchestra)
    /\ controls' = [playDisabled |-> TRUE, pauseDisabled |-> FALSE]
    /\ UNCHANGED <<appVars, canvasWidth, canvasHeight, call>>

\* pauseBtn `click`
Stop ==
    /\ ~controls.pauseDisabled
    /\ orchestra' = stop(orchestra)
    /\ controls' = [playDisabled |-> FALSE, pauseDisabled |-> TRUE]
    /\ UNCHANGED <<appVars, canvasWidth, canvasHeight, call>>

\* The started source reaches the end of its buffer: the node stops by itself;
\* no handler is registered for it.
SourceEnded ==
    /\ audible(orchestra)
    /\ orchestra' = [orchestra EXCEPT !.source.state = "ended"]
    /\ UNCHANGED <<appVars, controls, canvasWidth, canvasHeight, call>>

\* window `resize`
Resize ==
    /\ \E w \in Windows :
        /\ <<w.width, w.height>> # <<canvasWidth, canvasHeight>>
        /\ canvasWidth' = w.width
        /\ canvasHeight' = w.height
    /\ UNCHANGED <<appVars, orchestra, controls, call>>

\* Variant: every boid is updated against the population as it was before
\* the loop.
updateAllFromSnapshot(bs, k, width, height, wanders, jitters) ==
    [j \in 1..Len(bs) |->
        IF j < k THEN bs[j]
        ELSE boidUpdate(bs[j], bs, width, height, wanders[j], jitters[j]).boid]

RECURSIVE updateAll(_, _, _, _, _, _)
updateAll(bs, k, width, height, wanders, jitters) ==
    IF k > Len(bs) THEN bs
    ELSE updateAll([bs EXCEPT ![k] = boidUpdate(bs[k], bs, width, height,
                                                wanders[k], jitters[k]).boid],
                   k + 1, width, height, wanders, jitters)

\* what animate hands to orchestrator.update, and the Orchestra after it
heardBy(o, captured) ==
    IF isPlaying(o) THEN processAudio(o, captured)
    ELSE [orchestra |-> o, frequencyData |-> NoData]

\* animate(): one frame
Animate ==
    /\ frame.n < MaxFrames
    /\ \E captured \in Spectra, wanders \in FrameWanders, jitters \in FrameJitters :
        \E h \in {heardBy(orchestra, captured)} :
          \E r \in {update(boids, h.frequencyData, canvasWidth, wasPlaying,
                           chaosFramesRemaining)} :
            /\ orchestra' = h.orchestra
            /\ boids' = updateAll(r.boids, 1, canvasWidth, canvasHeight, wanders, jitters)
            /\ wasPlaying' = r.wasPlaying
            /\ chaosFramesRemaining' = r.chaosFramesRemaining
            /\ Observe(h.frequencyData, r)
            /\ frame' = [n |-> frame.n + 1, isPlaying |-> isPlaying(orchestra),
                         audible |-> audible(orchestra),
                         ended |-> isPlaying(orchestra) /\ ~audible(orchestra),
                         heard |-> frame.audible,
                         steered |-> r.boids,
                         wanders |-> wanders, jitters |-> jitters]
    /\ UNCHANGED <<controls, canvasWidth, canvasHeight, call>>

NextApp == LoadAudio \/ Play \/ Stop \/ SourceEnded \/ Resize \/ Animate

SpecApp == InitApp /\ [][NextApp]_vars

(***************************************************************************)
(* The population as objects.  Vector2's methods change their receiver and *)
(* return it, and a Boid holds references to its position and velocity     *)
(* vectors: here every Vector2 object has an identity, <<"position", j>>   *)
(* and <<"velocity", j>> for the fields of the boid at index j and         *)
(* <<name, 0>> for the vector a local of that name refers to, and the heap *)
(* gives each object its value.  Each function is the sequence of method   *)
(* calls the source makes, receiver by receiver.  A vector that is dropped *)
(* gives its identity to the one created in its place.                     *)
(***************************************************************************)
Locals == {"steer", "diff", "sum", "avgVel", "wander", "kick", "force"}

Objects(n) == ({"position", "velocity"} \X (1..n)) \cup (Locals \X {0})

\* the objects of a population, no local alive
heapOf(bs) == [o \in Objects(Len(bs)) |-> IF o[2] = 0 THEN Zero ELSE bs[o[2]][o[1]]]

boidAt(h, bands, j) == Boid(h[<<"position", j>>], h[<<"velocity", j>>], bands[j])

boidsOf(h, bands) == [j \in 1..Len(bands) |-> boidAt(h, bands, j)]

\* One call or assignment: <<"new", object, value>> for new Vector2(x, y),
\* <<"set", object, value>> for assignments to x and y, and
\* <<method, receiver, argument...>> for the methods of Vector2.
exec(h, c) ==
    CASE c[1] = "new"       -> [h EXCEPT ![c[2]] = c[3]]
      [] c[1] = "set"       -> [h EXCEPT ![c[2]] = c[3]]
      [] c[1] = "clone"     -> [h EXCEPT ![c[2]] = h[c[3]]]
      [] c[1] = "add"       -> [h EXCEPT ![c[2]] = add(h[c[2]], h[c[3]])]
      [] c[1] = "subtract"  -> [h EXCEPT ![c[2]] = subtract(h[c[2]], h[c[3]])]
      [] c[1] = "multiply"  -> [h EXCEPT ![c[2]] = multiply(h[c[2]], c[3], c[4])]
      [] c[1] = "normalize" -> [h EXCEPT ![c[2]] = normalize(h[c[2]])]

\* TLC evaluates an argument where it is first used.  A loop uses its state at
\* the head of every iteration, so that the state is computed iteration by
\* iteration and not in one nested evaluation at the end.
evaluated(state) == state = state

RECURSIVE run(_, _)
run(h, calls) ==
    IF evaluated(h) /\ calls # <<>> THEN run(exec(h, Head(calls)), Tail(calls)) ELSE h

\* getNeighbors, as indices
neighborsIn(h, bands, k) ==
    SelectSeq([j \in 1..Len(bands) |-> j],
              LAMBDA j : distanceTo(boidAt(h, bands, j), boidAt(h, bands, k))
                             < neighborhoodDistance * Scale)

\* Boid.getSeparation: one iteration, the loop, the function
separationStepIn(r, k, other, d) ==
    IF d > 0 /\ d < separationDistance * Scale
    THEN [heap |-> run(r.heap, << <<"clone", <<"diff", 0>>, <<"position", k>> >>,
                                  <<"subtract", <<"diff", 0>>, <<"position", other>> >>,
                                  <<"normalize", <<"diff", 0>> >>,
                                  <<"multiply", <<"diff", 0>>, Scale * Fine, d>>,
                                  <<"add", <<"steer", 0>>, <<"diff", 0>> >> >>),
          count |-> r.count + 1]
    ELSE r

RECURSIVE separationLoopIn(_, _, _, _)
separationLoopIn(r, bands, k, others) ==
    IF ~evaluated(r) \/ others = <<>> THEN r
    ELSE separationLoopIn(separationStepIn(r, k, Head(others),
                              distanceTo(boidAt(r.heap, bands, k),
                                         boidAt(r.heap, bands, Head(others)))),
                          bands, k, Tail(others))

averagedIn(r) ==
    IF r.count > 0 THEN run(r.heap, << <<"multiply", <<"steer", 0>>, 1, r.count>> >>)
    ELSE r.heap

getSeparationIn(h, bands, k, neighbors) ==
    averagedIn(separationLoopIn([heap |-> run(h, << <<"new", <<"steer", 0>>, Zero>> >>),
                                 count |-> 0],
                                bands, k, neighbors))

\* Boid.getCohesion (field "position", local sum) and Boid.getAlignment
\* (field "velocity", local avgVel)
sumStepIn(r, other, field, sum, d) ==
    IF d > 0 /\ d < neighborhoodDistance * Scale
    THEN [heap |-> run(r.heap, << <<"add", sum, <<field, other>> >> >>),
          count |-> r.count + 1]
    ELSE r

RECURSIVE sumLoopIn(_, _, _, _, _, _)
sumLoopIn(r, bands, k, others, field, sum) ==
    IF ~evaluated(r) \/ others = <<>> THEN r
    ELSE sumLoopIn(sumStepIn(r, Head(others), field, sum,
                             distanceTo(boidAt(r.heap, bands, k),
                                        boidAt(r.heap, bands, Head(others)))),
                   bands, k, Tail(others), field, sum)

towardsIn(r, k, field, sum) ==
    IF r.count > 0
    THEN run(r.heap, << <<"multiply", sum, 1, r.count>>,
                        <<"subtract", sum, <<field, k>> >>,
                        <<"normalize", sum>> >>)
    ELSE run(r.heap, << <<"new", sum, Zero>> >>)

getCohesionIn(h, bands, k, neighbors) ==
    towardsIn(sumLoopIn([heap |-> run(h, << <<"new", <<"sum", 0>>, Zero>> >>), count |-> 0],
                        bands, k, neighbors, "position", <<"sum", 0>>),
              k, "position", <<"sum", 0>>)

getAlignmentIn(h, bands, k, neighbors) ==
    towardsIn(sumLoopIn([heap |-> run(h, << <<"new", <<"avgVel", 0>>, Zero>> >>), count |-> 0],
                        bands, k, neighbors, "velocity", <<"avgVel", 0>>),
              k, "velocity", <<"avgVel", 0>>)

\* x.length() > 0 ? x.normalize().multiply(weight * 0.1) : new Vector2(0, 0)
weightedIn(h, force, weight) ==
    IF length(h[force]) > 0
    THEN run(h, << <<"normalize", force>>, <<"multiply", force, weight, 10 * 100>> >>)
    ELSE run(h, << <<"new", force, Zero>> >>)

\* the three forces and the wander added to this.velocity, and the damping
velocityIn(h, k) ==
    run(h, << <<"add", <<"velocity", k>>, <<"steer", 0>> >>,
              <<"add", <<"velocity", k>>, <<"sum", 0>> >>,
              <<"add", <<"velocity", k>>, <<"avgVel", 0>> >>,
              <<"add", <<"velocity", k>>, <<"wander", 0>> >>,
              <<"multiply", <<"velocity", k>>, 99, 100>> >>)

clampIn(h, k) ==
    IF length(h[<<"velocity", k>>]) > (maxSpeed * Scale) \div 100
    THEN run(h, << <<"normalize", <<"velocity", k>> >>,
                   <<"multiply", <<"velocity", k>>, maxSpeed, 100>> >>)
    ELSE IF length(h[<<"velocity", k>>]) > 0
            /\ length(h[<<"velocity", k>>]) < (minVelocity * Scale) \div 100
    THEN run(h, << <<"normalize", <<"velocity", k>> >>,
                   <<"multiply", <<"velocity", k>>, minVelocity, 100>> >>)
    ELSE h

\* the boundary wrap and the kick
wrapIn(h, k, width, height, jitter) ==
    IF leftCanvas(h[<<"position", k>>], width, height)
    THEN run(h, << <<"set", <<"position", k>>,
                     Vector2(wrapAxis(h[<<"position", k>>].x, width),
                             wrapAxis(h[<<"position", k>>].y, height))>>,
                   <<"new", <<"kick", 0>>, jitter>>,
                   <<"add", <<"velocity", k>>, <<"kick", 0>> >> >>)
    ELSE h

moveIn(h, k, width, height, jitter) ==
    wrapIn(run(h, << <<"add", <<"position", k>>, <<"velocity", k>> >> >>),
           k, width, height, jitter)

steerIn(h, k, wander) ==
    clampIn(velocityIn(weightedIn(weightedIn(weightedIn(
                           run(h, << <<"new", <<"wander", 0>>, wander>> >>),
                           <<"steer", 0>>, separationWeight),
                           <<"sum", 0>>, cohesionWeight),
                           <<"avgVel", 0>>, alignmentWeight), k), k)

flockIn(h, bands, k, neighbors) ==
    getAlignmentIn(getCohesionIn(getSeparationIn(h, bands, k, neighbors),
                                 bands, k, neighbors),
                   bands, k, neighbors)

\* boids[k].update(boids, canvasWidth, canvasHeight): the heap after the call
boidUpdateIn(h, bands, k, width, height, wander, jitter) ==
    moveIn(steerIn(flockIn(h, bands, k, neighborsIn(h, bands, k)), k, wander),
           k, width, height, jitter)

\* Variant: the difference is taken on the boid's own position, without the
\* clone.
repelStepInPlace(r, k, other, radius, d) ==
    IF d > 0 /\ d < radius * Scale
    THEN [heap |-> run(r.heap, << <<"subtract", <<"position", k>>, <<"position", other>> >>,
                                  <<"normalize", <<"position", k>> >>,
                                  <<"multiply", <<"position", k>>, 5 * Scale * Fine, 5 * d + 1>>,
                                  <<"add", <<"steer", 0>>, <<"position", k>> >> >>),
          count |-> r.count + 1]
    ELSE r

\* The inner loop of getChaosRepulsion and getZoneSeparation: one iteration
repelStepIn(r, k, other, radius, d) ==
    IF d > 0 /\ d < radius * Scale
    THEN [heap |-> run(r.heap, << <<"clone", <<"diff", 0>>, <<"position", k>> >>,
                                  <<"subtract", <<"diff", 0>>, <<"position", other>> >>,
                                  <<"normalize", <<"diff", 0>> >>,
                                  <<"multiply", <<"diff", 0>>, 5 * Scale * Fine, 5 * d + 1>>,
                                  <<"add", <<"steer", 0>>, <<"diff", 0>> >> >>),
          count |-> r.count + 1]
    ELSE r

\* the members of the other bands, in the order the two loops visit them
othersOf(boidsByBand, otherBands) ==
    boidsByBand[otherBands[1]] \o boidsByBand[otherBands[2]]

RECURSIVE repelLoopIn(_, _, _, _, _)
repelLoopIn(r, bands, k, others, radius) ==
    IF ~evaluated(r) \/ others = <<>> THEN r
    ELSE repelLoopIn(repelStepIn(r, k, Head(others), radius,
                                 distanceTo(boidAt(r.heap, bands, k),
                                            boidAt(r.heap, bands, Head(others)))),
                     bands, k, Tail(others), radius)

chaosSteerIn(r, intensityNum) ==
    IF r.count > 0
    THEN run(r.heap, << <<"multiply", <<"steer", 0>>, 1, r.count>>,
                        <<"normalize", <<"steer", 0>> >>,
                        <<"multiply", <<"steer", 0>>, chaosRepulsionStrength * intensityNum,
                          100 * chaosDuration>> >>)
    ELSE r.heap

getChaosRepulsionIn(h, bands, k, boidsByBand, intensityNum) ==
    chaosSteerIn(repelLoopIn([heap |-> run(h, << <<"new", <<"steer", 0>>, Zero>> >>),
                              count |-> 0],
                             bands, k, othersOf(boidsByBand, getOtherBands(bands[k])),
                             chaosRepulsionDistance),
                 intensityNum)

separationSteerIn(r) ==
    IF r.count > 0
    THEN run(r.heap, << <<"multiply", <<"steer", 0>>, 1, r.count>>,
                        <<"normalize", <<"steer", 0>> >> >>)
    ELSE r.heap

getZoneSeparationIn(h, bands, k, boidsByBand) ==
    separationSteerIn(repelLoopIn([heap |-> run(h, << <<"new", <<"steer", 0>>, Zero>> >>),
                                   count |-> 0],
                                  bands, k, othersOf(boidsByBand, getOtherBands(bands[k])),
                                  maxSeparationDistance))

\* boid.velocity.add(force), guarded by force.length() > 0
addForceIn(h, k, force) ==
    IF length(h[force]) > 0 THEN run(h, << <<"add", <<"velocity", k>>, force>> >>) ELSE h

RECURSIVE chaosLoopIn(_, _, _, _, _)
chaosLoopIn(h, bands, i, boidsByBand, intensityNum) ==
    IF ~evaluated(h) \/ i > Len(bands) THEN h
    ELSE chaosLoopIn(addForceIn(getChaosRepulsionIn(h, bands, i, boidsByBand, intensityNum),
                                i, <<"steer", 0>>),
                     bands, i + 1, boidsByBand, intensityNum)

\* getZoneAttraction: a new vector whose x is computed from numbers
attractIn(h, bands, i, width) ==
    addForceIn(run(h, << <<"new", <<"force", 0>>,
                           getZoneAttraction(boidAt(h, bands, i), width)>> >>),
               i, <<"force", 0>>)

\* boid.velocity.add(separationForce.multiply(this.separationStrength))
separateIn(h, i) ==
    IF length(h[<<"steer", 0>>]) > 0
    THEN run(h, << <<"multiply", <<"steer", 0>>, separationStrength, 100>>,
                   <<"add", <<"velocity", i>>, <<"steer", 0>> >> >>)
    ELSE h

RECURSIVE zoneLoopIn(_, _, _, _, _)
zoneLoopIn(h, bands, i, boidsByBand, width) ==
    IF ~evaluated(h) \/ i > Len(bands) THEN h
    ELSE zoneLoopIn(separateIn(getZoneSeparationIn(attractIn(h, bands, i, width),
                                                   bands, i, boidsByBand), i),
                    bands, i + 1, boidsByBand, width)

chaosPartIn(h, bands, boidsByBand, afterEdge) ==
    IF chaosActive(afterEdge)
    THEN chaosLoopIn(h, bands, 1, boidsByBand, chaosIntensity(countDown(afterEdge)))
    ELSE h

\* the loops of Orchestrator.update: the heap after the call
updateIn(h, bands, playing, boidsByBand, afterEdge, width) ==
    IF zoneActive(playing)
    THEN zoneLoopIn(chaosPartIn(h, bands, boidsByBand, afterEdge), bands, 1, boidsByBand, width)
    ELSE chaosPartIn(h, bands, boidsByBand, afterEdge)

(***************************************************************************)
(* The population's objects under any sequence of Orchestrator.update and  *)
(* Boid.update calls.                                                      *)
(***************************************************************************)
MaxObjectCalls == 3

\* four boids with neighbours of their own and of other bands inside every
\* radius; two boids, one about to leave the canvas
ObjectFlocks ==
    Flocks \cup
    {<<Boid(Vector2(px(100), px(100)), Vector2(0, 0), "low"),
       Boid(Vector2(px(110), px(105)), Vector2(60, 0), "low"),
       Boid(Vector2(px(130), px(140)), Vector2(-40, 20), "mid"),
       Boid(Vector2(px(100), px(119)), Vector2(20, -30), "high")>>,
     <<Boid(Vector2(px(1), px(150)), Vector2(-400, 0), "low"),
       Boid(Vector2(px(10), px(160)), Vector2(0, 0), "mid")>>}

bandsOf(bs) == [j \in 1..Len(bs) |-> bs[j].band]

InitObjects ==
    /\ \E bs \in ObjectFlocks :
         /\ Constructed(bs, px(300), px(300))
         /\ call = [kind |-> "objects", n |-> 0, op |-> "none", k |-> 0,
                    created |-> bandsOf(bs), bands |-> bandsOf(bs),
                    before |-> heapOf(bs), heap |-> heapOf(bs), returned |-> bs]
    /\ Detached

\* orchestrator.update(boids, frequencyData, canvas.width, canvas.height)
UpdateObjects ==
    /\ call.n < MaxObjectCalls
    /\ \E present \in BOOLEAN :
        \E h \in {updateIn(call.heap, call.bands, present,
                           groupBoidsByBand(boidsOf(call.heap, call.bands)),
                           detectStop(wasPlaying, present, chaosFramesRemaining),
                           canvasWidth)} :
            /\ boids' = boidsOf(h, call.bands)
            /\ wasPlaying' = present
            /\ chaosFramesRemaining' =
                   countDown(detectStop(wasPlaying, present, chaosFramesRemaining))
            /\ call' = [call EXCEPT
                           !.n = call.n + 1, !.op = "update", !.k = 0,
                           !.before = call.heap, !.heap = h,
                           !.returned = update(boids, [NoData EXCEPT !.present = present],
                                               canvasWidth, wasPlaying,
                                               chaosFramesRemaining).boids]
    /\ UNCHANGED <<canvasWidth, canvasHeight, last, sinceStop, playCalls, orchestra,
                   controls, frame>>

\* boids[k].update(boids, canvas.width, canvas.height)
BoidUpdateObjects ==
    /\ call.n < MaxObjectCalls
    /\ \E k \in 1..Len(boids), wander \in {Vector2(3, 0), Vector2(0, -3)},
          jitter \in {Vector2(49, -50)} :
        \E h \in {boidUpdateIn(call.heap, call.bands, k, canvasWidth, canvasHeight,
                               wander, jitter)} :
            /\ boids' = boidsOf(h, call.bands)
            /\ call' = [call EXCEPT
                           !.n = call.n + 1, !.op = "boid", !.k = k,
                           !.before = call.heap, !.heap = h,
                           !.returned = [boids EXCEPT ![k] =
                                            boidUpdate(boids[k], boids, canvasWidth,
                                                       canvasHeight, wander, jitter).boid]]
    /\ UNCHANGED <<canvasWidth, canvasHeight, wasPlaying, chaosFramesRemaining, last,
                   sinceStop, playCalls, orchestra, controls, frame>>

NextObjects == UpdateObjects \/ BoidUpdateObjects

SpecObjects == InitObjects /\ [][NextObjects]_vars

(***************************************************************************)
(* One pass over the population in two orders: Orchestrator.update, and    *)
(* the loop of Boid.update calls, applied to a population and to the same  *)
(* boids in a permuted order, from the same state of the controller.       *)
(***************************************************************************)
Permutations(n) ==
    {perm \in [1..n -> 1..n] : \A i, j \in 1..n : i # j => perm[i] # perm[j]}

\* the sequence whose element i is element perm[i] of `items`
permuted(items, perm) == [i \in 1..Len(items) |-> items[perm[i]]]

InitOrder ==
    /\ \E bs \in ObjectFlocks, h \in Histories :
        /\ boids = bs
        /\ canvasWidth = px(300)
        /\ canvasHeight = px(300)
        /\ last = NoUpdate(bs)
        /\ wasPlaying = h.wasPlaying
        /\ chaosFramesRemaining = h.chaosFramesRemaining
        /\ sinceStop = 0
        /\ playCalls = 0
        /\ \E perm \in Permutations(Len(bs)), frequencyData \in {NoData} \cup Snapshots :
             call = [kind |-> "order", done |-> FALSE, perm |-> perm,
                     frequencyData |-> frequencyData,
                     wanders |-> [j \in 1..Len(bs) |->
                                     IF j % 2 = 0 THEN Vector2(3, 0) ELSE Vector2(0, -3)],
                     jitters |-> [j \in 1..Len(bs) |-> Vector2(49, -50)],
                     direct |-> <<>>, reordered |-> <<>>,
                     boidsDirect |-> <<>>, boidsReordered |-> <<>>]
    /\ Detached

\* orchestrator.update(boids, ...) and the loop of boid.update(boids, ...) on
\* the population, and both on the permuted population
ApplyOrder ==
    /\ call.kind = "order" /\ ~call.done
    /\ call' = [call EXCEPT
                   !.done = TRUE,
                   !.direct = forcesOf(update(boids, call.frequencyData, canvasWidth,
                                              wasPlaying, chaosFramesRemaining)),
                   !.reordered = forcesOf(update(permuted(boids, call.perm),
                                                 call.frequencyData, canvasWidth,
                                                 wasPlaying, chaosFramesRemaining)),
                   !.boidsDirect = updateAll(boids, 1, canvasWidth, canvasHeight,
                                             call.wanders, call.jitters),
                   !.boidsReordered = updateAll(permuted(boids, call.perm), 1, canvasWidth,
                                                canvasHeight,
                                                permuted(call.wanders, call.perm),
                                                permuted(call.jitters, call.perm))]
    /\ UNCHANGED <<boids, canvasWidth, canvasHeight, wasPlaying, chaosFramesRemaining,
                   last, sinceStop, playCalls, orchestra, controls, frame>>

NextOrder == ApplyOrder

SpecOrder == InitOrder /\ [][NextOrder]_vars

(***************************************************************************)
(* Properties of the zone controller (checked under Spec)                  *)
(***************************************************************************)
Indices == 1..Len(boids)

\* Whether the boid at index i has a boid of another band inside the radius.
hasOtherBandWithin(i, radius) ==
    repelLoop(boids, boids[i], groupBoidsByBand(boids), getOtherBands(boids[i].band),
              radius, [steer |-> Zero, count |-> 0]).count > 0

fallingEdge == last.called /\ last.previous /\ ~last.frequencyData.present

\* C1: the countdown stands at chaosDuration (60) after the edge detection of
\* exactly those update calls that are handed no FrequencyData while the call
\* before was handed one; never on the first call, nor on idle->idle,
\* idle->playing or playing->playing calls.
C1_ArmedExactlyOnFallingEdge ==
    last.called => ((last.afterEdge = chaosDuration) <=> fallingEdge)

\* a burst that was still draining is restarted at 60
C1_Witness ==
    fallingEdge /\ last.entry > 0 /\ last.entry < chaosDuration
                /\ last.afterEdge = chaosDuration

\* C2 (as claimed): on the call that observes the playing->idle transition the
\* intensity factor of the chaos force is 1, i.e. chaosDuration / chaosDuration.
C2_FullStrengthOnFirstTick ==
    (sinceStop = 1 /\ \E i \in Indices : hasOtherBandWithin(i, chaosRepulsionDistance))
        => last.intensityNum = chaosDuration

\* C3: from the 61st call after a playing->idle transition on (that call being
\* the 1st, and no later transition), no chaos force is added to any boid.
C3_DrainedAfterSixty ==
    sinceStop >= chaosDuration + 1 => \A i \in Indices : last.chaosForces[i] = Zero

C3_Witness ==
    /\ sinceStop = chaosDuration + 1
    /\ \E i \in Indices : hasOtherBandWithin(i, chaosRepulsionDistance)

\* C4: the countdown is within 0..chaosDuration after every call, and after the
\* edge detection inside every call.
C4_CountdownInRange ==
    /\ chaosFramesRemaining \in 0..chaosDuration
    /\ last.afterEdge \in 0..chaosDuration

\* both ends are reached: armed at 60, and drained to 0 on the 60th call
C4_Witness ==
    sinceStop = chaosDuration /\ last.entry = 1 /\ chaosFramesRemaining = 0

\* C5: a call that is handed a FrequencyData leaves the countdown as it found
\* it up to the chaos block (resuming cancels nothing); and on every call whose
\* countdown is positive after the edge detection, with or without
\* FrequencyData, the countdown goes down by exactly 1, the chaos pass computes
\* a force for every boid, and every boid's velocity gains the chaos force,
\* the zone attraction and the scaled separation of that same call.
C5_BurstRunsEveryTick ==
    /\ (last.called /\ last.frequencyData.present) => last.afterEdge = last.entry
    /\ (last.called /\ last.afterEdge > 0) =>
        /\ chaosFramesRemaining = last.afterEdge - 1
        /\ last.chaosRan
        /\ last.intensityNum = chaosFramesRemaining
        /\ \A i \in Indices :
              /\ last.chaosForces[i] =
                     getChaosRepulsion(boids, boids[i], groupBoidsByBand(boids),
                                       chaosFramesRemaining)
              /\ last.frequencyData.present =>
                     last.attractions[i] = getZoneAttraction(boids[i], canvasWidth)
              /\ boids[i].velocity =
                     add(add(add(last.before[i], last.chaosForces[i]),
                             last.attractions[i]), last.separations[i])

\* a burst goes on while a FrequencyData is handed in, and all three forces act
C5_Witness ==
    /\ last.called /\ last.frequencyData.present /\ last.afterEdge > 0
    /\ \E i \in Indices : /\ last.chaosForces[i] # Zero
                           /\ last.attractions[i] # Zero
                           /\ last.separations[i] # Zero

\* C6: a call that is handed no FrequencyData and whose countdown is 0 after the
\* edge detection leaves every boid's velocity as it was.
C6_IdleDrainedKeepsVelocities ==
    (last.called /\ ~last.frequencyData.present /\ last.afterEdge = 0) =>
        /\ velocities(boids) = last.before
        /\ \A i \in Indices : /\ last.chaosForces[i] = Zero
                               /\ last.attractions[i] = Zero
                               /\ last.separations[i] = Zero

\* such a call after music has played and a burst has drained, the boids moving
C6_Witness ==
    /\ last.called /\ ~last.frequencyData.present /\ last.afterEdge = 0
    /\ sinceStop > chaosDuration
    /\ \E i \in Indices : boids[i].velocity # Zero
    /\ \E i \in Indices : getZoneAttraction(boids[i], canvasWidth) # Zero

\* The population of one 'low' boid at x = -10 on a canvas 1000 wide, after its
\* first update call that was handed a FrequencyData.
loneLeftOfZone ==
    /\ Len(boids) = 1 /\ boids[1].band = "low"
    /\ boids[1].position.x = -px(10) /\ canvasWidth = px(1000)
    /\ last.called /\ last.frequencyData.present /\ playCalls = 1

\* C11 (as claimed): after that call the velocity's x-component is strictly
\* positive, whatever velocity the boid was constructed with.
C11_VelocityPositiveAfterPass == loneLeftOfZone => boids[1].velocity.x > 0

\* C11 (amended): that call adds a strictly positive x-force and nothing else, so
\* the velocity's x-component strictly increases, and is strictly positive when
\* it was not negative before the call.
C11_VelocityGainsPositiveForce ==
    loneLeftOfZone =>
        /\ last.attractions[1].x > 0 /\ last.attractions[1].y = 0
        /\ boids[1].velocity = add(last.before[1], last.attractions[1])
        /\ boids[1].velocity.x > last.before[1].x
        /\ last.before[1].x >= 0 => boids[1].velocity.x > 0

\* the boid was constructed moving left at full speed, and still moves left
C11_Witness ==
    /\ loneLeftOfZone /\ last.before[1].x = -2 * Scale
    /\ boids[1].velocity.x < 0 /\ boids[1].velocity.x > last.before[1].x

(***************************************************************************)
(* Properties of Boid.update (checked under SpecBoid)                      *)
(***************************************************************************)
updated == call.kind = "Boid.update" /\ call.done

\* Speeds compare up to the rounding of a normalized vector.
Ulp == Scale \div 100

speedInRange(v) ==
    \/ v = Zero
    \/ /\ length(v) >= (minVelocity * Scale) \div 100 - Ulp
       /\ length(v) <= (maxSpeed * Scale) \div 100 + Ulp

\* C8 (as claimed): after every complete Boid.update call, wrapped or not, the
\* boid's speed is exactly zero or within [minVelocity, maxSpeed].
C8_SpeedInRangeAfterUpdate == updated => speedInRange(boids[1].velocity)

\* The speed clamp does hold on the calls that do not wrap.
SpeedInRangeUnlessWrapped == (updated /\ ~call.wrapped) => speedInRange(boids[1].velocity)

\* C9: after every Boid.update call on a canvas of non-negative extent the
\* position is within [0, canvasWidth] x [0, canvasHeight].
C9_PositionInsideCanvas ==
    updated => /\ boids[1].position.x >= 0 /\ boids[1].position.x <= canvasWidth
               /\ boids[1].position.y >= 0 /\ boids[1].position.y <= canvasHeight

\* a boid that started further left of the canvas than the canvas is wide
C9_Witness ==
    /\ updated /\ canvasWidth > 0
    /\ call.before.position.x < -canvasWidth
    /\ boids[1].position.x = canvasWidth

(***************************************************************************)
(* Properties of getZoneAttraction (checked under SpecAttraction)          *)
(***************************************************************************)
attracted == call.kind = "getZoneAttraction" /\ call.done

\* C10: for every band and positive width the x-force is strictly positive left
\* of the zone's left edge and strictly negative right of its right edge;
\* inside the zone it has the sign of (zone midpoint - x), zero at the
\* midpoint; the y-force is zero.
C10_AttractionSign ==
    attracted =>
        LET zone == zoneBoundaries(call.boid.band)
            x100 == 100 * call.boid.position.x
        IN  /\ call.force.y = 0
            /\ x100 < zone.min * call.width => call.force.x > 0
            /\ x100 > zone.max * call.width => call.force.x < 0
            /\ (x100 >= zone.min * call.width /\ x100 <= zone.max * call.width) =>
                  Sign(call.force.x) = Sign((zone.min + zone.max) * call.width - 2 * x100)

\* a boid right of its zone is pulled left
C10_Witness ==
    /\ attracted /\ call.boid.band = "mid"
    /\ 100 * call.boid.position.x > zoneBoundaries("mid").max * call.width
    /\ call.force.x < 0

(***************************************************************************)
(* Properties of the page (checked under SpecApp)                          *)
(***************************************************************************)
\* C7 (as claimed): on every animation frame that finds playback stopped, by
\* stop() or by the source having reached the end of its buffer, isPlaying()
\* is false and no FrequencyData is handed to the zone controller, and the
\* chaos burst is armed on that frame if the frame before was still playing.
C7_IdleOnFrameAfterPlaybackStops ==
    (frame.n > 0 /\ ~frame.audible) =>
        /\ ~frame.isPlaying
        /\ ~last.frequencyData.present
        /\ frame.heard => last.afterEdge = chaosDuration

\* The stop() half of the claim does hold.
IdleOnFrameAfterStop ==
    (frame.n > 0 /\ ~frame.audible /\ ~frame.ended) =>
        /\ ~frame.isPlaying
        /\ ~last.frequencyData.present
        /\ frame.heard => last.afterEdge = chaosDuration

(***************************************************************************)
(* Properties of the inter-band separation (checked under SpecSeparation)  *)
(***************************************************************************)
separated == call.kind = "separation" /\ call.done

\* Whether the force on the boid `self` points directly away from `other`, up
\* to the rounding of its two components.
pointsAway(force, self, other) ==
    /\ Abs(force.x * (self.position.y - other.position.y)
             - force.y * (self.position.x - other.position.x))
           <= Ulp * (Abs(self.position.x - other.position.x)
                       + Abs(self.position.y - other.position.y))
    /\ force.x * (self.position.x - other.position.x)
           + force.y * (self.position.y - other.position.y) > 0

\* C12 (as claimed): each of the two boids receives a separation force that
\* points directly away from the other, and the force at the smaller distance
\* is strictly larger than the force at the larger distance (by more than the
\* rounding of a length).
C12_SeparationInverseToDistance ==
    separated =>
        \A i \in {1, 2} :
            /\ pointsAway(call.nearForces[i], call.near[i], call.near[3 - i])
            /\ pointsAway(call.farForces[i], call.far[i], call.far[3 - i])
            /\ length(call.nearForces[i]) > length(call.farForces[i]) + Ulp

\* What the code does: the force points away, at the fixed strength
\* separationStrength whatever the distance.
SeparationAwayAtFixedStrength ==
    separated =>
        \A i \in {1, 2} :
            /\ pointsAway(call.nearForces[i], call.near[i], call.near[3 - i])
            /\ pointsAway(call.farForces[i], call.far[i], call.far[3 - i])
            /\ Abs(length(call.nearForces[i]) - (separationStrength * Scale) \div 100) <= Ulp
            /\ Abs(length(call.farForces[i]) - (separationStrength * Scale) \div 100) <= Ulp


(***************************************************************************)
(* Properties of the FrequencyData content (checked under SpecContent)     *)
(***************************************************************************)
compared == call.kind = "content" /\ call.done

\* Whether the two snapshots differ in the dominant sub-band or the average
\* energy of the zone of a band.
zoneContentDiffers(band) ==
    \/ call.first.zones[band].dominantBandIndex # call.second.zones[band].dominantBandIndex
    \/ call.first.zones[band].averageEnergy # call.second.zones[band].averageEnergy

\* C13 (as claimed): the dominant sub-band and average energy of a zone steer
\* that zone's boids: when two snapshots differ in them for the zone of a band
\* that has a boid, the update adds different forces to some boid.
C13_ContentSteersAgents ==
    (compared /\ \E i \in Indices : zoneContentDiffers(boids[i].band)) =>
        \E i \in Indices :
            \/ call.firstForces.chaosForces[i] # call.secondForces.chaosForces[i]
            \/ call.firstForces.attractions[i] # call.secondForces.attractions[i]
            \/ call.firstForces.separations[i] # call.secondForces.separations[i]
            \/ call.firstForces.velocities[i] # call.secondForces.velocities[i]

\* What the code does: the update reads only whether a snapshot is present, so
\* any two snapshots give the same forces, velocities and controller state.
ContentIgnored == compared => call.firstForces = call.secondForces


(***************************************************************************)
(* Properties of processAudio (checked under SpecAudio)                    *)
(***************************************************************************)
analysedOnce == call.kind = "processAudio" /\ call.n > 0

\* C14 (as claimed): the buffer extractSubBands reads holds the spectrum the
\* analyser captured during the same call, the capture having refreshed the
\* Orchestra's own buffer in place; so a non-zero capture gives non-zero raw
\* sub-band energies.
C14_CaptureRefreshesBuffer ==
    analysedOnce =>
        /\ call.read = call.captured
        /\ orchestra.frequencyData = call.captured
        /\ (\A bin \in DOMAIN call.captured : call.captured[bin] > 0) =>
               \E i \in DOMAIN call.raw : call.raw[i] > 0

\* What the code does: the capture lands in a copy, and the buffer read is the
\* one the constructor zero-filled.
BufferStaysSilent ==
    analysedOnce =>
        /\ \A bin \in DOMAIN call.read : call.read[bin] = 0
        /\ \A i \in DOMAIN call.raw : call.raw[i] = 0
        /\ call.data.amplitude = 0 /\ ~call.data.beat

zoneRanges(zoneIdx) == [k \in 1..SUBBANDS |-> call.ranges[zoneIdx * SUBBANDS + k]]

widthOf(range) == range.binEnd - range.binStart

\* Whether five ranges partition [minBin, maxBin) the way C20 says.
partitions(ranges, bins) ==
    /\ ranges[1].binStart = bins.minBin
    /\ ranges[SUBBANDS].binEnd = bins.maxBin
    /\ \A k \in 1..(SUBBANDS - 1) :
          /\ ranges[k].binEnd = ranges[k + 1].binStart
          /\ widthOf(ranges[k]) = widthOf(ranges[1])
    /\ widthOf(ranges[SUBBANDS]) <= widthOf(ranges[1])
    /\ \A k \in 1..SUBBANDS : ranges[k].binStart < ranges[k].binEnd

\* C20 (as claimed): with 1024 bins each of the 3 zones gets 5 contiguous
\* sub-ranges whose union is the zone's [minBin, maxBin), the first four of
\* equal width, the last no wider, all non-empty (a positive divisor).
C20_SubBandsPartitionZones ==
    analysedOnce =>
        \A zoneIdx \in 0..(ZONES - 1) :
            partitions(zoneRanges(zoneIdx), zoneBins(zoneIdx, frequencyBinCount))

\* It does hold of the mid and high zones.
WideZonesPartitioned ==
    analysedOnce =>
        \A zoneIdx \in 1..(ZONES - 1) :
            partitions(zoneRanges(zoneIdx), zoneBins(zoneIdx, frequencyBinCount))


(***************************************************************************)
(* Properties of the beat detection (checked under SpecBeat)               *)
(***************************************************************************)
ticked == call.kind = "detectBeat" /\ call.tick > 0

\* C15: on every call the beat flag is true iff currentAmplitude /
\* (previousAmplitude + 0.001) > 1.5 and currentAmplitude > 0.1, both strictly,
\* previousAmplitude being the amplitude of the call before (0 before the first
\* call) and being overwritten with the current amplitude on every call; for
\* the amplitudes 0, 0, 0.5 the flag is true exactly on the third tick.
C15_BeatIffSpikeAboveFloor ==
    ticked =>
        /\ call.beat <=> /\ 2 * 1000 * call.current > 3 * (1000 * call.previous + EnergyOne)
                         /\ 10 * call.current > EnergyOne
        /\ call.current = call.amplitudes[call.tick]
        /\ call.previous = IF call.tick = 1 THEN 0 ELSE call.amplitudes[call.tick - 1]
        /\ orchestra.previousAmplitude = call.current
        /\ (call.tick >= 3 /\ SubSeq(call.amplitudes, 1, 3) = <<0, 0, EnergyOne \div 2>>) =>
               SubSeq(call.flags, 1, 3) = <<FALSE, FALSE, TRUE>>

\* the third tick of 0, 0, 0.5
C15_Witness ==
    /\ ticked /\ call.tick = 3 /\ SubSeq(call.amplitudes, 1, 3) = <<0, 0, EnergyOne \div 2>>
    /\ call.beat /\ call.previous = 0 /\ orchestra.previousAmplitude = EnergyOne \div 2


(***************************************************************************)
(* Properties of the energies (checked under SpecSmoothing)                *)
(***************************************************************************)
inUnit(energy) == 0 <= energy /\ energy <= EnergyOne

\* C16: after every processAudio the fifteen smoothed energies, the energies
\* and the average energy of each zone, and the global amplitude all lie in
\* [0, 1].
C16_EnergiesInUnitRange ==
    analysedOnce =>
        /\ \A i \in 1..(ZONES * SUBBANDS) :
              inUnit(call.raw[i]) /\ inUnit(orchestra.smoothedSubBands[i])
        /\ \A zone \in Bands :
              /\ inUnit(call.data.zones[zone].averageEnergy)
              /\ \A i \in 1..SUBBANDS : inUnit(call.data.zones[zone].energies[i])
        /\ inUnit(call.data.amplitude)
        /\ inUnit(orchestra.previousAmplitude)

\* a call that leaves one smoothed energy at 1 and another strictly inside
\* the range, the amplitude being strictly inside too
C16_Witness ==
    /\ analysedOnce
    /\ \E i \in 1..(ZONES * SUBBANDS) : orchestra.smoothedSubBands[i] = EnergyOne
    /\ \E i \in 1..(ZONES * SUBBANDS) :
          0 < orchestra.smoothedSubBands[i] /\ orchestra.smoothedSubBands[i] < EnergyOne
    /\ 0 < call.data.amplitude /\ call.data.amplitude < EnergyOne


(***************************************************************************)
(* Properties of createSubBandData (checked under SpecSubBand)             *)
(***************************************************************************)
zoneEnergy(i) == call.smoothed[call.zoneIdx * SUBBANDS + i]

failedLoad == call' # call /\ call'.kind = "loadAudio" /\ ~call'.decoded

\* C18: a loadAudio that fails returns a rejected promise and leaves the
\* audio buffer, the source and the smoothing state of the Orchestra as they
\* were before the call.
C18_FailedLoadKeepsState ==
    [][failedLoad =>
          /\ call'.rejected
          /\ orchestra'.audioBuffer = orchestra.audioBuffer
          /\ orchestra'.source = orchestra.source
          /\ orchestra'.smoothedSubBands = orchestra.smoothedSubBands
          /\ orchestra'.previousAmplitude = orchestra.previousAmplitude]_vars

\* a rejected load while a source plays the buffer loaded before
C18_Witness ==
    /\ call.kind = "loadAudio" /\ call.rejected
    /\ orchestra.audioBuffer = call.file
    /\ audible(orchestra) /\ orchestra.source.buffer = call.file
    /\ ~controls.pauseDisabled

\* a step that is one frame of animate
framed == frame'.n = frame.n + 1

\* the population Boid.update of index k is handed: the boids before k as
\* they are after the frame, the others as orchestrator.update left them
seenBy(k) ==
    [j \in 1..Len(boids) |-> IF j < k THEN boids'[j] ELSE frame'.steered[j]]

\* C19: one frame runs the analysis, then orchestrator.update, then
\* Boid.update on every boid in index order: the controller is handed the
\* analysis of this very frame (none when nothing plays), it steers the
\* population the frame started with, and Boid.update of index k works on the
\* steered boid k, reading the already updated boids of lower index and the
\* not yet updated boids of higher index. A frame is one step: no two
\* overlap.
C19_FrameRunsInOrder ==
    [][framed =>
          /\ last'.called
          /\ last'.frequencyData.present = isPlaying(orchestra)
          /\ last'.frequencyData.present =>
                orchestra'.previousAmplitude = last'.frequencyData.amplitude
          /\ last'.before = velocities(boids)
          /\ \A k \in 1..Len(boids) :
                /\ frame'.steered[k].position = boids[k].position
                /\ frame'.steered[k].band = boids[k].band
                /\ boids'[k] = boidUpdate(frame'.steered[k], seenBy(k), canvasWidth,
                                           canvasHeight, frame'.wanders[k],
                                           frame'.jitters[k]).boid]_vars

\* a frame in which a boid of index above 1 has a neighbour of lower index
\* that moved in the same frame
C19_Witness ==
    /\ frame.n > 0
    /\ \E k \in 2..Len(boids) :
          /\ frame.steered[k - 1] # boids[k - 1]
          /\ distanceTo(frame.steered[k], frame.steered[k - 1]) < neighborhoodDistance * Scale


(***************************************************************************)
(* Properties of the population's objects (checked under SpecObjects)      *)
(***************************************************************************)
\* the two translations of the calls agree on the population
ObjectsAgreeWithValues ==
    call.kind = "objects" => boids = call.returned

sameVector(object) == call.heap[object] = call.before[object]

\* C21: Orchestrator.update changes no boid's position and no boid's band;
\* Boid.update of the boid k changes no position, velocity or band of another
\* boid and not the band of k; the population keeps its size and its order.
C21_CallsChangeOnlyTheirOwn ==
    call.kind = "objects" =>
        /\ Len(boids) = Len(call.created)
        /\ \A j \in 1..Len(boids) : boids[j].band = call.created[j]
        /\ call.op = "update" =>
              \A j \in 1..Len(boids) : sameVector(<<"position", j>>)
        /\ call.op = "boid" =>
              \A j \in 1..Len(boids) :
                  j # call.k => sameVector(<<"position", j>>) /\ sameVector(<<"velocity", j>>)

\* a Boid.update, after an Orchestrator.update that ran the chaos loop, that
\* moved its boid and changed its velocity, another boid being inside the
\* separation distance
C21_Witness ==
    /\ call.kind = "objects" /\ call.op = "boid"
    /\ chaosFramesRemaining > 0
    /\ ~sameVector(<<"position", call.k>>) /\ ~sameVector(<<"velocity", call.k>>)
    /\ \E j \in 1..Len(boids) :
          /\ j # call.k
          /\ distanceTo(boidAt(call.before, call.bands, j),
                        boidAt(call.before, call.bands, call.k)) < separationDistance * Scale

(***************************************************************************)
(* Properties of the iteration order (checked under SpecOrder)             *)
(***************************************************************************)
ordered == call.kind = "order" /\ call.done

\* the loop of Boid.update calls left some boid in another state when it ran
\* in the permuted order
boidPassDiffers ==
    \E i \in 1..Len(boids) : call.boidsReordered[i] # call.boidsDirect[call.perm[i]]

\* C22: one Orchestrator.update pass gives every boid the same chaos force,
\* zone attraction, separation force and velocity, and leaves the controller
\* in the same state, whatever the order of the population.  The loop of
\* Boid.update calls does depend on the order: the four boids that are all
\* neighbours end in other states when the loop runs over them backwards.
C22_UpdateIgnoresOrder ==
    ordered =>
        /\ \A i \in 1..Len(boids) :
              /\ call.reordered.velocities[i] = call.direct.velocities[call.perm[i]]
              /\ call.reordered.chaosForces[i] = call.direct.chaosForces[call.perm[i]]
              /\ call.reordered.attractions[i] = call.direct.attractions[call.perm[i]]
              /\ call.reordered.separations[i] = call.direct.separations[call.perm[i]]
        /\ call.reordered.wasPlaying = call.direct.wasPlaying
        /\ call.reordered.chaosFramesRemaining = call.direct.chaosFramesRemaining
        /\ (Len(boids) = 4 /\ call.perm = [i \in 1..4 |-> 5 - i]) => boidPassDiffers

\* a pass, in an order that is not the population's, in which boids got a
\* chaos force, an attraction and a separation force, the Boid.update loop
\* giving another result in that order
C22_Witness ==
    /\ ordered
    /\ call.perm # [i \in 1..Len(boids) |-> i]
    /\ \E i \in 1..Len(boids) : call.direct.chaosForces[i] # Zero
    /\ \E i \in 1..Len(boids) : call.direct.attractions[i] # Zero
    /\ \E i \in 1..Len(boids) : call.direct.separations[i] # Zero
    /\ boidPassDiffers


====
